---------------------------- MODULE Spec2Model ----------------------------
(***************************************************************************)
(* A model of postgres_migrator (src/src/main.rs): the migration-chain     *)
(* parser, the transient-database handles, the transactional applier and   *)
(* the generate / migrate / compact / diff / check commands.               *)
(*                                                                         *)
(* Strings are sequences of bytes (Rust's String and PathBuf compare and   *)
(* measure bytes); every byte the model uses is ASCII, so a byte is also a *)
(* character.                                                              *)
(***************************************************************************)
EXTENDS Integers, Sequences, FiniteSets, TLC

(***************************************************************************)
(* Bytes and string literals of the source.                                *)
(***************************************************************************)
DOT == 46
SLASH == 47
UNDERSCORE == 95
DIGIT0 == 48
VERSION_LEN == 14

\* "null"
get_null_string == <<110, 117, 108, 108>>
\* "onboard"
ONBOARD == <<111, 110, 98, 111, 97, 114, 100>>
\* "sql"
sql_extension == <<115, 113, 108>>
\* "migrations"
DEFAULT_MIGRATIONS_DIRECTORY == <<109, 105, 103, 114, 97, 116, 105, 111, 110, 115>>
SPACE == 32

\* Option<T>: None, or Some(x) holding x.
None == <<>>
Some(x) == <<x>>

Min(a, b) == IF a < b THEN a ELSE b

\* Rust's Ord for str / String: lexicographic on bytes; a < b.
StrLt(a, b) ==
    \E k \in 0..Min(Len(a), Len(b)) :
        /\ \A j \in 1..k : a[j] = b[j]
        /\ \/ (k = Len(a) /\ k < Len(b))
           \/ (k < Len(a) /\ k < Len(b) /\ a[k + 1] < b[k + 1])

\* str::split(sep): the portions between separators, at least one portion.
RECURSIVE Split(_, _)
Split(s, sep) ==
    IF \A i \in 1..Len(s) : s[i] # sep
    THEN <<s>>
    ELSE LET first == CHOOSE i \in 1..Len(s) :
                          s[i] = sep /\ \A j \in 1..(i - 1) : s[j] # sep
         IN  <<SubSeq(s, 1, first - 1)>> \o Split(SubSeq(s, first + 1, Len(s)), sep)

RECURSIVE Join(_, _)
Join(parts, sep) ==
    IF Len(parts) = 0 THEN <<>>
    ELSE IF Len(parts) = 1 THEN parts[1]
    ELSE parts[1] \o <<sep>> \o Join(Tail(parts), sep)

\* Path::components for a relative path: empty and "." components vanish.
PathComponents(path) ==
    SelectSeq(Split(path, SLASH), LAMBDA c : c # <<>> /\ c # <<DOT>>)

\* Path::file_name: the last component, None when the path ends in "..".
PathFileName(path) ==
    LET comps == PathComponents(path)
    IN  IF Len(comps) = 0 \/ comps[Len(comps)] = <<DOT, DOT>>
        THEN None
        ELSE Some(comps[Len(comps)])

\* Path::to_string_lossy on an ASCII path.
to_string_lossy(path) == path

(***************************************************************************)
(* MigrationFile::vec_from_paths                                           *)
(***************************************************************************)
NoErr == [kind |-> "", args |-> <<>>]
Ok(value) == [ok |-> TRUE, value |-> value, err |-> NoErr]
\* anyhow!(format string, args): the format string's text and the values
\* interpolated into it, in order.
Err(kind, args) == [ok |-> FALSE, value |-> <<>>, err |-> [kind |-> kind, args |-> args]]

MigrationFile(file_path, display_file_path, current_version, previous_version, is_onboard) ==
    [file_path |-> file_path, display_file_path |-> display_file_path,
     current_version |-> current_version, previous_version |-> previous_version,
     is_onboard |-> is_onboard]

\* Mutant: any length passes.
validate_version_string_AnyLength(version_string) == Ok(version_string)

validate_version_string(version_string) ==
    IF Len(version_string) = VERSION_LEN
    THEN Ok(version_string)
    ELSE Err("{version_string} is supposed to have exactly 14 characters",
             <<version_string>>)

\* Mutant: "onboard" is swapped in for the expected version at any position
\* whose predecessor is anything.
expected_previous_OnboardAnywhere(previous_version, last_seen_current_version) ==
    IF previous_version = ONBOARD THEN ONBOARD ELSE last_seen_current_version

\* Lines 256-258: the version the previous slot is compared with.
expected_previous(previous_version, last_seen_current_version) ==
    IF previous_version = ONBOARD /\ last_seen_current_version = get_null_string
    THEN ONBOARD
    ELSE last_seen_current_version

\* Mutant: no alignment check.
versions_misaligned_Never(previous_version, last_seen_current_version) == FALSE

\* Line 259.
versions_misaligned(previous_version, last_seen_current_version) ==
    previous_version # last_seen_current_version

\* Mutant: >= instead of >.
is_sequential_OrEqual(current_version, previous_version) ==
    ~StrLt(current_version, previous_version)

\* Line 282: current_version > previous_version.
is_sequential(current_version, previous_version) ==
    StrLt(previous_version, current_version)

\* One iteration of the loop body (lines 243-289) for the path at 0-based
\* index: Ok(the parsed file) or the error returned.
parse_migration_file(file_path, index, last_seen_current_version) ==
    LET display_file_path == to_string_lossy(file_path)
        file_name == PathFileName(file_path)
    IN
    IF file_name = None
    THEN Err("no file name for this path: {display_file_path}", <<display_file_path>>)
    ELSE
    LET portions == Split(file_name[1], DOT) IN
    IF Len(portions) < 1
    THEN Err("no version strings in this path: {display_file_path}", <<display_file_path>>)
    ELSE IF Len(portions) < 2
    THEN Err("no previous version string in this path: {display_file_path}",
             <<display_file_path>>)
    ELSE
    LET current_version == portions[1]
        previous_version == portions[2]
        last_seen == expected_previous(previous_version, last_seen_current_version)
    IN
    IF versions_misaligned(previous_version, last_seen)
    THEN Err("misaligned versions in {display_file_path}: expected {last_seen_current_version}, got {previous_version}",
             <<display_file_path, last_seen, previous_version>>)
    ELSE
    LET validated == validate_version_string(current_version) IN
    IF ~validated.ok THEN validated
    ELSE
    LET is_onboard == (previous_version = ONBOARD) IN
    IF previous_version = get_null_string \/ is_onboard
    THEN IF ~(index = 0)
         THEN Err("null or onboard previous_version in migration that isn't the first: {display_file_path}",
                  <<display_file_path>>)
         ELSE Ok(MigrationFile(file_path, display_file_path, current_version,
                               get_null_string, is_onboard))
    ELSE IF ~is_sequential(current_version, previous_version)
         THEN Err("all migration versions have to be sequential, so {current_version} must be greater than {previous_version}",
                  <<current_version, previous_version>>)
         ELSE LET validated_previous == validate_version_string(previous_version) IN
              IF ~validated_previous.ok THEN validated_previous
              ELSE Ok(MigrationFile(file_path, display_file_path, current_version,
                                    previous_version, is_onboard))

RECURSIVE vec_from_paths_loop(_, _, _, _)
vec_from_paths_loop(file_paths, index, last_seen_current_version, migration_files) ==
    IF index >= Len(file_paths)
    THEN Ok(migration_files)
    ELSE LET parsed == parse_migration_file(file_paths[index + 1], index,
                                            last_seen_current_version)
         IN  IF ~parsed.ok THEN parsed
             ELSE vec_from_paths_loop(file_paths, index + 1,
                                      parsed.value.current_version,
                                      Append(migration_files, parsed.value))

vec_from_paths(file_paths) ==
    vec_from_paths_loop(file_paths, 0, get_null_string, <<>>)

(***************************************************************************)
(* Bounds of the model.                                                    *)
(***************************************************************************)
\* The clock starts at 00:00:59 of the model's day, so one tick crosses a
\* minute boundary (…000059 -> …000100).
ClockStart == 59
\* How many seconds the clock may advance in a behaviour.
MaxTicks == 1
\* How many top-level commands a behaviour runs.
MaxCommands == 3
\* How many times the environment fails a step (a connection, a statement, the
\* diff subprocess, a file operation) in a behaviour.
MaxFaults == 1
\* How many paths vec_from_paths is given in SpecParse.
MaxPaths == 3
\* How long the texts given to make_slug are in SpecSlug.
MaxText == 4

(***************************************************************************)
(* create_timestamp, make_slug, list_sql_files                             *)
(***************************************************************************)
TwoDigits(n) == <<DIGIT0 + (n \div 10), DIGIT0 + (n % 10)>>

\* "20240101": the clock's day; `now` counts the seconds since its midnight.
CLOCK_DAY == <<50, 48, 50, 52, 48, 49, 48, 49>>

\* Mutant: "%Y%m%d%H%M" and a constant "00" for the seconds.
create_timestamp_Minutes(now) ==
    CLOCK_DAY \o TwoDigits(now \div 3600) \o TwoDigits((now \div 60) % 60) \o TwoDigits(0)

\* Utc::now().format("%Y%m%d%H%M%S")
create_timestamp(now) ==
    CLOCK_DAY \o TwoDigits(now \div 3600) \o TwoDigits((now \div 60) % 60)
              \o TwoDigits(now % 60)

IsDigit(b) == b \in 48..57
\* The code points of 'Σ', 'σ' and 'ς': the one letter beyond ASCII the texts
\* hold, each as one element of the sequence.
CAPITAL_SIGMA == 931
SMALL_SIGMA == 963
FINAL_SIGMA == 962
SIGMAS == {CAPITAL_SIGMA, SMALL_SIGMA, FINAL_SIGMA}

\* \w of the regex crate on these characters.
IsWordByte(b) == IsDigit(b) \/ b \in 65..90 \/ b \in 97..122 \/ b = UNDERSCORE \/ b \in SIGMAS
\* char::to_lowercase of a character that is not 'Σ'.
to_lowercase_byte(b) == IF b \in 65..90 THEN b + 32 ELSE b

\* The Unicode properties Cased and Case_Ignorable on these characters
\* (Case_Ignorable in ASCII: ' . : ^ `).
Cased(c) == c \in 65..90 \/ c \in 97..122 \/ c \in SIGMAS
Case_Ignorable(c) == c \in {39, DOT, 58, 94, 96}

RECURSIVE case_ignorable_then_cased(_)
\* str::to_lowercase's helper: after the case-ignorable characters at the
\* head, a cased character comes.
case_ignorable_then_cased(chars) ==
    IF Len(chars) = 0 THEN FALSE
    ELSE IF Case_Ignorable(Head(chars)) THEN case_ignorable_then_cased(Tail(chars))
    ELSE Cased(Head(chars))

Reverse(s) == [i \in 1..Len(s) |-> s[Len(s) + 1 - i]]

\* str::to_lowercase: character by character, but 'Σ' becomes 'ς' at the end
\* of a word (a cased character before it, none after it, case-ignorable
\* characters skipped) and 'σ' elsewhere.
to_lowercase(s) ==
    [i \in 1..Len(s) |->
        IF s[i] = CAPITAL_SIGMA
        THEN IF /\ case_ignorable_then_cased(Reverse(SubSeq(s, 1, i - 1)))
                /\ ~case_ignorable_then_cased(SubSeq(s, i + 1, Len(s)))
             THEN FINAL_SIGMA ELSE SMALL_SIGMA
        ELSE to_lowercase_byte(s[i])]

\* Mutant: the pattern is \W, each non-word byte is a match of its own.
SkipNonWord_OneByte(text) == Tail(text)

RECURSIVE SkipNonWord(_)
\* The text after the match of \W+ at its head.
SkipNonWord(text) ==
    IF Len(text) > 0 /\ ~IsWordByte(Head(text)) THEN SkipNonWord(Tail(text)) ELSE text

\* Regex::new(r"\W+").replace_all(text, "_")
RECURSIVE replace_all_nonword(_)
replace_all_nonword(text) ==
    IF Len(text) = 0 THEN <<>>
    ELSE IF IsWordByte(Head(text))
         THEN <<Head(text)>> \o replace_all_nonword(Tail(text))
         ELSE <<UNDERSCORE>> \o replace_all_nonword(SkipNonWord(text))

make_slug(text) == to_lowercase(replace_all_nonword(text))

\* Path::extension of a file name: the bytes after the last '.', None when
\* there is no '.' or the only one leads the name.
PathExtension(path) ==
    LET file_name == PathFileName(path) IN
    IF file_name = None THEN None
    ELSE LET portions == Split(file_name[1], DOT) IN
         IF Len(portions) < 2 \/ (Len(portions) = 2 /\ portions[1] = <<>>)
         THEN None
         ELSE Some(portions[Len(portions)])

RECURSIVE SeqLt(_, _)
\* PathBuf's Ord: component by component, each component by bytes.
SeqLt(a, b) ==
    IF Len(b) = 0 THEN FALSE
    ELSE IF Len(a) = 0 THEN TRUE
    ELSE IF Head(a) = Head(b) THEN SeqLt(Tail(a), Tail(b))
    ELSE StrLt(Head(a), Head(b))

PathLt(a, b) == SeqLt(PathComponents(a), PathComponents(b))

RECURSIVE SortPaths(_)
\* entries.sort()
SortPaths(paths) ==
    IF paths = {} THEN <<>>
    ELSE LET least == CHOOSE p \in paths : \A q \in paths \ {p} : PathLt(p, q)
         IN  <<least>> \o SortPaths(paths \ {least})

PathJoin(directory, name) == directory \o <<SLASH>> \o name

\* An entry of the file system: its path and whether Path::is_dir holds.
FsEntry(path, is_dir) == [path |-> path, is_dir |-> is_dir]

\* Path::starts_with: component by component.
starts_with(path, base) ==
    LET components == PathComponents(path)
        prefix == PathComponents(base)
    IN  /\ Len(prefix) <= Len(components)
        /\ SubSeq(components, 1, Len(prefix)) = prefix

\* WalkDir::new(directory): the directory itself and everything below it; an
\* error for a root that is not there (the first `entry?` returns it).
WalkDir(directory, entries) ==
    IF \A e \in entries : e.path # directory
    THEN Err("IO error for operation on {directory}: No such file or directory", <<directory>>)
    ELSE Ok({e \in entries : starts_with(e.path, directory)})

\* Mutant: the test of is_dir is left out.
is_sql_file_DirectoriesToo(entry) == PathExtension(entry.path) = Some(sql_extension)

\* Line 147.
is_sql_file(entry) == ~entry.is_dir /\ PathExtension(entry.path) = Some(sql_extension)

\* list_sql_files (lines 141-153) on a file system.
list_sql_files_in(directory, entries) ==
    LET walked == WalkDir(directory, entries)
    IN  IF ~walked.ok THEN walked
        ELSE Ok(SortPaths({e.path : e \in {w \in walked.value : is_sql_file(w)}}))

\* The migrations directory exists (ensure_directory, line 442) and holds
\* plain files only: `files` maps each file name to its content.
PlainDirectory(directory, files) ==
    {FsEntry(directory, TRUE)}
        \cup {FsEntry(PathJoin(directory, name), FALSE) : name \in DOMAIN files}

list_sql_files(directory, files) ==
    list_sql_files_in(directory, PlainDirectory(directory, files)).value

(***************************************************************************)
(* The database server.  A database's structure is the set of its          *)
(* relations; the live database also holds the rows of _schema_versions    *)
(* and (a history of the model) the migrations whose SQL was committed.    *)
(***************************************************************************)
Objects == {"fruit"}
\* The relation EXISTS_QUERY looks for.
VERSIONS_TABLE == "_schema_versions"
Schemas == SUBSET Objects

\* An SQL value of type char(14): NULL, or Some(the 14 bytes); SqlError
\* stands for an expression that is no value.
SqlNull == None
SqlError == <<<<>>, <<>>>>

\* A migration file's content: the SQL migra emitted to turn `source` into
\* `target`.  The empty string is the diff with nothing to drop or create.
Diff(source, target) == [drop |-> source \ target, create |-> target \ source]
EmptyDiff == [drop |-> {}, create |-> {}]

\* batch_execute of a migration's SQL on a database with structure `schema`:
\* dropping a missing relation or creating an existing one is an SQL error.
batch_execute_sql(schema, sql) ==
    IF sql.drop \subseteq schema /\ sql.create \cap schema = {}
    THEN Ok((schema \ sql.drop) \cup sql.create)
    ELSE Err("db error", <<>>)

RECURSIVE apply_sql_contents(_, _)
\* apply_sql_files on a database with structure `schema`: each file's content
\* executed in order, stopping at the first error.
apply_sql_contents(schema, contents) ==
    IF Len(contents) = 0 THEN Ok(schema)
    ELSE LET r == batch_execute_sql(schema, Head(contents))
         IN  IF ~r.ok THEN r ELSE apply_sql_contents(r.value, Tail(contents))

IsDigits(s) == Len(s) > 0 /\ \A i \in 1..Len(s) : IsDigit(s[i])

RECURSIVE StripLeadingZeros(_)
StripLeadingZeros(s) ==
    IF Len(s) > 1 /\ Head(s) = DIGIT0 THEN StripLeadingZeros(Tail(s)) ELSE s

PadTo(s, n) == s \o [i \in 1..(n - Len(s)) |-> SPACE]

\* Mutant: the token is taken as a quoted string.
SqlChar14_Quoted(token) == Some(token)

\* The value of `token` written unquoted in "values ({current_version},
\* {previous_version})" and assigned to a char(14) column: the word null is
\* NULL, a run of digits is an integer literal whose decimal text is padded
\* with spaces, anything else is not a value.
SqlChar14(token) ==
    IF token = get_null_string THEN SqlNull
    ELSE IF IsDigits(token) /\ Len(StripLeadingZeros(token)) <= VERSION_LEN
    THEN Some(PadTo(StripLeadingZeros(token), VERSION_LEN))
    ELSE SqlError

\* Mutant: the table is created with "if not exists".
create_versions_table_IfNotExists(db) ==
    Ok([db EXCEPT !.schema = @ \cup {VERSIONS_TABLE}])

\* create_versions_table: "create table _schema_versions (...)" fails when the
\* relation exists; the batch is one implicit transaction.
create_versions_table(db) ==
    IF VERSIONS_TABLE \in db.schema
    THEN Err("db error: relation _schema_versions already exists", <<>>)
    ELSE Ok([db EXCEPT !.schema = @ \cup {VERSIONS_TABLE}, !.rows = {}])

\* Mutant: the constraints of the table are not enforced.
insert_version_Unconstrained(db, current_version, previous_version) ==
    Ok([db EXCEPT !.rows = @ \cup {[current_version |-> SqlChar14(current_version)[1],
                                    previous_version |-> SqlChar14(previous_version)]}])

\* "insert into _schema_versions (current_version, previous_version) values
\* ({current_version}, {previous_version})" under the table's constraints
\* (lines 640-645).
insert_version(db, current_version, previous_version) ==
    LET c == SqlChar14(current_version)
        p == SqlChar14(previous_version)
    IN  IF /\ VERSIONS_TABLE \in db.schema
           /\ c # SqlError /\ p # SqlError
           \* current_version char(14) not null unique
           /\ c # SqlNull
           /\ \A r \in db.rows : r.current_version # c[1]
           \* previous_version ... unique, and the partial unique index
           /\ \A r \in db.rows : r.previous_version # p
           \* references _schema_versions(current_version)
           /\ (p # SqlNull => (p = c \/ \E r \in db.rows : r.current_version = p[1]))
           \* check (current_version > previous_version)
           /\ (p # SqlNull => StrLt(p[1], c[1]))
        THEN Ok([db EXCEPT !.rows = @ \cup {[current_version |-> c[1], previous_version |-> p]}])
        ELSE Err("db error", <<>>)

\* pg_temp.current_schema_version(): max(current_version) when the table
\* exists (NULL for no rows), NULL otherwise; None is Rust's Option::None.
current_schema_version(db) ==
    IF VERSIONS_TABLE \in db.schema /\ db.rows # {}
    THEN LET top == CHOOSE r \in db.rows :
                        \A q \in db.rows : ~StrLt(r.current_version, q.current_version)
         IN  Some(top.current_version)
    ELSE None

\* Mutant: only the truncate runs.
truncate_and_seed_NoInsert(db, current_version) ==
    IF VERSIONS_TABLE \in db.schema THEN Ok([db EXCEPT !.rows = {}]) ELSE Err("db error", <<>>)

\* Lines 533-536: "truncate table _schema_versions; insert ... values
\* ({current_version}, null)" as one batch.
truncate_and_seed(db, current_version) ==
    IF VERSIONS_TABLE \in db.schema
    THEN insert_version([db EXCEPT !.rows = {}], current_version, get_null_string)
    ELSE Err("db error: relation _schema_versions does not exist", <<>>)

(***************************************************************************)
(* The state.                                                              *)
(***************************************************************************)
VARIABLES
    now,         \* the wall clock, in seconds since the midnight of CLOCK_DAY
    migrations,  \* the migrations directory: file name -> content
    live,        \* the live database, as committed
    server,      \* the transient databases on the server: [name, tagged]
    cmd,         \* the command main dispatched, with its Args
    pc,          \* where the running command is
    gen,         \* command_generate's locals
    mig,         \* command_migrate's locals
    bd,          \* compute_backend_diff's locals
    handles,     \* the TempDb values in scope, in declaration order
    result,      \* the Result the running function is returning
    hist,        \* history of the behaviour (no program state)
    file_paths,  \* SpecParse: the argument of vec_from_paths
    parsed,      \* SpecParse: what vec_from_paths returned
    file_system, \* SpecList: the entries of the file system
    sql_files,   \* SpecList: what list_sql_files returned
    slug_text,   \* SpecSlug: the argument of make_slug
    slug_made,   \* SpecSlug: what make_slug returned
    operators,   \* SpecApply: the two concurrent command_migrate runs
    live_before, \* SpecApply: the live database before either run
    migra_output, \* SpecDiff: what the migra subprocess did
    diff_returned \* SpecDiff: what compute_diff returned

vars == <<now, migrations, live, server, cmd, pc, gen, mig, bd, handles, result,
          hist, file_paths, parsed, file_system, sql_files, slug_text, slug_made,
          operators, live_before, migra_output, diff_returned>>

MaxNow == ClockStart + MaxTicks

\* "Add Fruit!"
RawDescriptions == {<<65, 100, 100, 32, 70, 114, 117, 105, 116, 33>>}
\* "ensuring_current"
ENSURING_CURRENT == <<101, 110, 115, 117, 114, 105, 110, 103, 95, 99, 117, 114, 114, 101, 110, 116>>
\* "compacted_initial"
COMPACTED_INITIAL == <<99, 111, 109, 112, 97, 99, 116, 101, 100, 95, 105, 110, 105, 116, 105, 97, 108>>

Backends == {"Migrations", "Schema", "Database"}

\* The database the configuration names (line 888, base_config): it is on the
\* server under the bare dbname, without the _{now}_{suffix} ending, and it
\* carries no comment.
CONFIG_DBNAME == [secs |-> 0, suffix |-> ""]

NoFiles == [n \in {} |-> EmptyDiff]
NoCmd == [name |-> "none", schema |-> None, phase |-> 0, current_version |-> <<>>]
NoGen == [raw_description |-> <<>>, is_onboard |-> FALSE, migration_files |-> <<>>,
          previous_version |-> <<>>, description_slug |-> <<>>,
          current_version |-> <<>>, source |-> {}, target |-> {}]
NoMig == [actually_perform_onboard_migrations |-> FALSE, dry_run |-> FALSE,
          migration_files |-> <<>>, actual_version |-> None, index |-> 0,
          transaction |-> None, reports |-> <<>>,
          executed |-> {}, inserted |-> {}, repeat |-> FALSE, rows_before |-> {}]
NoBd == [source |-> "Schema", target |-> "Schema", need_version_table |-> FALSE,
         source_schema |-> {}, target_schema |-> {}]
\* ran, faults: the commands dispatched and the faults so far;
\* after_migrate: the last command to finish was a migrate (no dry run) that
\* returned Ok; only_generate_compact: every command that has finished was a
\* generate or a compact that returned Ok; only_successful: every command
\* that has finished was a generate, a migrate or a compact that returned Ok;
\* obtained, drop_attempted,
\* drop_failed: the TempDb values the running function obtained, those whose
\* Drop ran, and those whose Drop failed.
\* connected: what command_clean's connect_database met and returned; server_before:
\* the databases of the server when command_clean queried them.
NoHist == [ran |-> 0, faults |-> 0, after_migrate |-> FALSE,
           only_generate_compact |-> TRUE,
           only_successful |-> TRUE,
           obtained |-> {}, drop_attempted |-> {}, drop_failed |-> {},
           connected |-> None, server_before |-> {}]

Init ==
    /\ now = ClockStart
    /\ migrations = NoFiles
    /\ live = [schema |-> {}, rows |-> {}, executed |-> {}]
    /\ server = {[name |-> CONFIG_DBNAME, tagged |-> FALSE]}
    /\ cmd = NoCmd
    /\ pc = "idle"
    /\ gen = NoGen
    /\ mig = NoMig
    /\ bd = NoBd
    /\ handles = <<>>
    /\ result = Ok(<<>>)
    /\ hist = NoHist
    /\ file_paths = <<>>
    /\ parsed = None
    /\ file_system = {}
    /\ sql_files = None
    /\ slug_text = <<>>
    /\ slug_made = None
    /\ migra_output = None
    /\ diff_returned = None
    /\ operators = <<>>
    /\ live_before = [schema |-> {}, rows |-> {}, executed |-> {}]

\* gather_validated_migrations: the parsed chain and its last current_version.
gather_validated_migrations(files) ==
    LET last_current_version(migration_files) ==
            IF Len(migration_files) = 0 THEN None
            ELSE Some(migration_files[Len(migration_files)].current_version)
        gathered(r) ==
            IF ~r.ok THEN r
            ELSE Ok([migration_files |-> r.value,
                     current_version |-> last_current_version(r.value)])
    IN  gathered(vec_from_paths(list_sql_files(DEFAULT_MIGRATIONS_DIRECTORY, files)))

\* The content of the file at a path list_sql_files returned.
ReadFile(files, file_path) == files[PathFileName(file_path)[1]]

(***************************************************************************)
(* TempDb                                                                  *)
(***************************************************************************)
TempDbFaults == {"none", "connect", "create", "comment"}

\* format!("{dbname}_{now}_{suffix}"): dbname is the same for every command.
TempDbName(secs, suffix) == [secs |-> secs, suffix |-> suffix]

\* Mutant: the handle is returned before the comment is made.
TempDb_new_Untagged(dbs, dbname, fault) ==
    IF fault \in {"connect", "create"} \/ \E d \in dbs : d.name = dbname
    THEN [server |-> dbs, handle |-> None]
    ELSE [server |-> dbs \cup {[name |-> dbname, tagged |-> FALSE]}, handle |-> Some(dbname)]

\* TempDb::new (lines 715-727): connect to template1, create database,
\* comment on database.  `fault` is the step the environment fails.
TempDb_new(dbs, dbname, fault) ==
    IF fault = "connect" THEN [server |-> dbs, handle |-> None]
    ELSE IF fault = "create" \/ \E d \in dbs : d.name = dbname
    THEN [server |-> dbs, handle |-> None]
    ELSE IF fault = "comment"
    THEN [server |-> dbs \cup {[name |-> dbname, tagged |-> FALSE]}, handle |-> None]
    ELSE [server |-> dbs \cup {[name |-> dbname, tagged |-> TRUE]}, handle |-> Some(dbname)]

\* Mutant: a failed connection to template1 is the only thing tried.
TempDb_drop_Nothing(dbs, dbname, fails) == dbs

\* impl Drop for TempDb (lines 731-741): "drop database if exists"; a failure
\* is printed and swallowed.
TempDb_drop(dbs, dbname, fails) ==
    IF fails THEN dbs ELSE {d \in dbs : d.name # dbname}

(***************************************************************************)
(* The environment's faults, counted.                                      *)
(***************************************************************************)
MayFail(fault) == fault => hist.faults < MaxFaults
Faulted(h, fault) == IF fault THEN [h EXCEPT !.faults = @ + 1] ELSE h

(***************************************************************************)
(* main: a command is dispatched when none is running.                     *)
(***************************************************************************)
Dispatch(name) ==
    /\ pc = "idle"
    /\ hist.ran < MaxCommands
    /\ cmd' = [NoCmd EXCEPT !.name = name]
    /\ hist' = [hist EXCEPT !.ran = @ + 1]

\* The schema directory is read where the code first applies its files
\* (apply_sql_files, lines 155-163); a command that reads it again finds it
\* as it was.
schema_directory == IF cmd.schema = None THEN Schemas ELSE {cmd.schema[1]}

\* Command::Generate
main_generate ==
    /\ \E description \in RawDescriptions, is_onboard \in BOOLEAN :
          /\ Dispatch("generate")
          /\ gen' = [NoGen EXCEPT !.raw_description = description,
                                  !.is_onboard = is_onboard]
    /\ pc' = "command_generate"
    /\ UNCHANGED <<now, migrations, live, server, mig, bd, handles, result,
                   file_paths, parsed, file_system, sql_files, slug_text, slug_made,
                   operators, live_before, migra_output, diff_returned>>

(***************************************************************************)
(* command_generate (lines 498-520)                                        *)
(***************************************************************************)
\* Mutant: an onboard migration may follow others.
onboard_refused_Never(is_onboard, previous_version) == FALSE

\* Line 501.
onboard_refused(is_onboard, previous_version) ==
    is_onboard /\ previous_version # None

\* Line 504.
generate_previous_version(is_onboard, previous_version) ==
    IF previous_version # None THEN previous_version[1]
    ELSE IF is_onboard THEN ONBOARD ELSE get_null_string

\* Line 516: "{current_version}.{previous_version}.{description_slug}.sql"
migration_file_name(current_version, previous_version, description_slug) ==
    Join(<<current_version, previous_version, description_slug, sql_extension>>, DOT)

\* Lines 499-507: gather the chain, refuse a late onboard, read the clock.
command_generate ==
    /\ pc = "command_generate"
    /\ \E gathered \in {gather_validated_migrations(migrations)} :
       IF ~gathered.ok
       THEN /\ result' = gathered
            /\ pc' = "unwind"
            /\ UNCHANGED <<now, gen>>
       ELSE IF onboard_refused(gen.is_onboard, gathered.value.current_version)
       THEN /\ result' = Err("can't generate an onboard migration when there are already migrations", <<>>)
            /\ pc' = "unwind"
            /\ UNCHANGED <<now, gen>>
       ELSE \E t \in now..MaxNow :
               /\ now' = t
               /\ gen' = [gen EXCEPT
                     !.migration_files = gathered.value.migration_files,
                     !.previous_version = generate_previous_version(
                                              gen.is_onboard, gathered.value.current_version),
                     !.description_slug = make_slug(gen.raw_description),
                     !.current_version = create_timestamp(t)]
               /\ pc' = "generate_source"
               /\ UNCHANGED result
    /\ UNCHANGED <<migrations, live, server, cmd, mig, bd, handles, hist,
                   file_paths, parsed, file_system, sql_files, slug_text, slug_made,
                   operators, live_before, migra_output, diff_returned>>

\* Mutant: the statements that fill a TempDb run on base_config.
fill_config_Base(temp_config, base_config) == base_config

\* Lines 509-512 and 655-658: the statements that fill a TempDb run on
\* temp.config.
fill_config(temp_config, base_config) == temp_config

\* The live database (base_config) after the statements that fill a TempDb
\* and leave the structure `filled`.
live_after_fill(db, filled) ==
    IF fill_config("temp.config", "base_config") = "base_config" /\ filled.ok
    THEN [db EXCEPT !.schema = @ \cup filled.value]
    ELSE db

\* TempDb::new(dbname, suffix, base_config) followed by the statements that
\* fill the new database (`filled`: the structure they leave, or their
\* error).  The handle is in scope from TempDb::new's return on; the function
\* goes on at next_pc when every statement succeeded.
AcquireTempDb(suffix, filled, next_pc) ==
    \E t \in now..MaxNow, fault \in TempDbFaults, io_fault \in BOOLEAN :
        LET made == TempDb_new(server, TempDbName(t, suffix), fault) IN
        /\ MayFail(fault # "none" \/ io_fault)
        /\ ~(fault # "none" /\ io_fault)
        /\ now' = t
        /\ server' = made.server
        /\ IF made.handle = None
           THEN /\ result' = Err("db error", <<>>)
                /\ pc' = "unwind"
                /\ hist' = Faulted(hist, fault # "none")
                /\ UNCHANGED handles
           ELSE /\ handles' = Append(handles, made.handle[1])
                /\ hist' = [Faulted(hist, io_fault) EXCEPT !.obtained = @ \cup {made.handle[1]}]
                /\ IF io_fault \/ ~filled.ok
                   THEN /\ result' = Err("db error", <<>>)
                        /\ pc' = "unwind"
                   ELSE /\ pc' = next_pc
                        /\ UNCHANGED result

\* Lines 509-510: the transient database of the migrations.
generate_source ==
    /\ pc = "generate_source"
    /\ LET contents == [i \in 1..Len(gen.migration_files) |->
                           ReadFile(migrations, gen.migration_files[i].file_path)]
           filled == apply_sql_contents({}, contents)
       IN  /\ AcquireTempDb("migrations", filled, "generate_target")
           /\ gen' = IF pc' = "unwind" THEN gen ELSE [gen EXCEPT !.source = filled.value]
           /\ live' = IF handles' = handles THEN live ELSE live_after_fill(live, filled)
    /\ UNCHANGED <<migrations, cmd, mig, bd, file_paths, parsed, file_system, sql_files, slug_text, slug_made,
                   operators, live_before, migra_output, diff_returned>>

\* Lines 511-512: the transient database of the declared schema.
generate_target ==
    /\ pc = "generate_target"
    /\ \E schema \in schema_directory :
        LET filled == apply_sql_contents({}, <<Diff({}, schema)>>)
        IN  /\ AcquireTempDb("schema", filled, "generate_write")
            /\ gen' = IF pc' = "unwind" THEN gen ELSE [gen EXCEPT !.target = filled.value]
            /\ cmd' = IF pc' = "unwind" THEN cmd ELSE [cmd EXCEPT !.schema = Some(schema)]
            /\ live' = IF handles' = handles THEN live ELSE live_after_fill(live, filled)
    /\ UNCHANGED <<migrations, mig, bd, file_paths, parsed, file_system, sql_files, slug_text, slug_made,
                   operators, live_before, migra_output, diff_returned>>

WriteFaults == {"none", "migra", "create", "write_all"}

\* Lines 514-519: compute_diff, then File::create and write_all.
generate_write ==
    /\ pc = "generate_write"
    /\ \E fault \in WriteFaults :
        LET generated_migration == Diff(gen.source, gen.target)
            name == migration_file_name(gen.current_version, gen.previous_version,
                                        gen.description_slug)
            write(content) == [n \in DOMAIN migrations \cup {name} |->
                                  IF n = name THEN content ELSE migrations[n]]
        IN  /\ migrations' = IF fault = "none" THEN write(generated_migration)
                             ELSE IF fault = "write_all" THEN write(EmptyDiff)
                             ELSE migrations
            /\ result' = IF fault = "none" THEN Ok(gen.current_version)
                         ELSE Err("io error", <<>>)
            /\ MayFail(fault # "none")
            /\ hist' = Faulted(hist, fault # "none")
    /\ pc' = "unwind"
    /\ UNCHANGED <<now, live, server, cmd, gen, mig, bd, handles,
                   file_paths, parsed, file_system, sql_files, slug_text, slug_made,
                   operators, live_before, migra_output, diff_returned>>

(***************************************************************************)
(* command_migrate (lines 542-618)                                         *)
(***************************************************************************)
\* Command::Migrate
main_migrate ==
    /\ \E actually_perform_onboard_migrations \in BOOLEAN, dry_run \in BOOLEAN :
          /\ Dispatch("migrate")
          /\ mig' = [NoMig EXCEPT
                !.actually_perform_onboard_migrations = actually_perform_onboard_migrations,
                !.dry_run = dry_run,
                !.repeat = hist.after_migrate /\ ~dry_run,
                !.rows_before = live.rows]
    /\ pc' = "command_migrate"
    /\ UNCHANGED <<now, migrations, live, server, gen, bd, handles, result,
                   file_paths, parsed, file_system, sql_files, slug_text, slug_made,
                   operators, live_before, migra_output, diff_returned>>

ProbeFaults == {"none", "connect_database", "transaction"}

\* main's connect_database (line 872) when main called, then lines 547-566:
\* gather the chain, probe the version in a transaction that is dropped
\* (rolled back) at the end of the block.
command_migrate ==
    /\ pc = "command_migrate"
    /\ \E fault \in ProbeFaults, gathered \in {gather_validated_migrations(migrations)} :
        /\ MayFail(fault # "none")
        /\ fault = "connect_database" => cmd.name = "migrate"
        /\ fault = "transaction" => gathered.ok
        /\ hist' = Faulted(hist, fault # "none")
        /\ IF fault = "connect_database"
           THEN /\ result' = Err("Failed to connect to database", <<>>)
                /\ pc' = "unwind"
                /\ UNCHANGED mig
           ELSE IF ~gathered.ok
           THEN /\ result' = gathered
                /\ pc' = "unwind"
                /\ UNCHANGED mig
           ELSE IF fault = "transaction"
           THEN /\ result' = Err("db error", <<>>)
                /\ pc' = "unwind"
                /\ UNCHANGED mig
           ELSE /\ mig' = [mig EXCEPT
                      !.migration_files = gathered.value.migration_files,
                      !.actual_version = current_schema_version(live),
                      !.index = 0]
                /\ pc' = "migrate_loop"
                /\ UNCHANGED result
    /\ UNCHANGED <<now, migrations, live, server, cmd, gen, bd, handles,
                   file_paths, parsed, file_system, sql_files, slug_text, slug_made,
                   operators, live_before, migra_output, diff_returned>>

\* Mutant: a migration at the probed version is performed again (>=).
is_pending_OrEqual(current_version, actual_version) ==
    actual_version = None \/ ~StrLt(current_version, actual_version[1])

\* Lines 600-614: the file is performed when no version was probed or when
\* current_version > actual_version.
is_pending(current_version, actual_version) ==
    actual_version = None \/ StrLt(actual_version[1], current_version)

\* Mutant: the table is created before every migration.
creates_table_Always(index) == TRUE

\* Line 579.
creates_table(index) == index = 0

\* Mutant: a dry run performs the migrations all the same.
performs_Always(dry_run) == TRUE

\* Line 577: perform_migration returns at once in a dry run.
performs(dry_run) == ~dry_run

\* Mutant: an onboard migration's SQL is executed like any other.
executes_sql_Always(is_onboard, actually_perform_onboard_migrations) == TRUE

\* Line 585.
executes_sql(is_onboard, actually_perform_onboard_migrations) ==
    ~is_onboard \/ actually_perform_onboard_migrations

\* Mutant: the bookkeeping row is committed, the migration's statements are
\* not part of the transaction's commit.
commit_RowsOnly(db, transaction) == [db EXCEPT !.rows = transaction.rows]

\* transaction.commit(): what the transaction did becomes the database.
commit(db, transaction) == transaction

Report(m, text) == [m EXCEPT !.reports = Append(@, text), !.index = @ + 1]

BeginFaults == {"none", "create_versions_table", "transaction"}

\* Lines 570-583 and 600-614: the next file of the chain; when it is to be
\* performed, the table is created (first file) and a transaction opened.
migrate_file ==
    /\ pc = "migrate_loop"
    /\ IF mig.index >= Len(mig.migration_files)
       THEN /\ result' = Ok(<<>>)
            /\ pc' = "unwind"
            /\ UNCHANGED <<mig, live, hist>>
       ELSE
       LET file == mig.migration_files[mig.index + 1] IN
       IF mig.index # 0 /\ file.is_onboard
       THEN /\ result' = Err("migration {display_file_path} is listed as an onboard migration, but isn't the first one (at index {index})",
                             <<file.display_file_path>>)
            /\ pc' = "unwind"
            /\ UNCHANGED <<mig, live, hist>>
       ELSE IF ~is_pending(file.current_version, mig.actual_version)
       THEN /\ mig' = Report(mig, IF mig.dry_run THEN "not would perform"
                                   ELSE "not performing")
            /\ UNCHANGED <<pc, result, live, hist>>
       ELSE IF ~performs(mig.dry_run)
       THEN /\ mig' = Report(mig, "would perform")
            /\ UNCHANGED <<pc, result, live, hist>>
       ELSE \E fault \in BeginFaults :
            LET created == IF creates_table(mig.index) /\ fault # "create_versions_table"
                           THEN create_versions_table(live)
                           ELSE Ok(live)
            IN  /\ MayFail(fault # "none")
                /\ fault = "create_versions_table" => creates_table(mig.index)
                /\ fault = "transaction" => created.ok
                /\ hist' = Faulted(hist, fault # "none")
                /\ live' = IF created.ok THEN created.value ELSE live
                /\ IF fault # "none" \/ ~created.ok
                   THEN /\ result' = Err("db error", <<>>)
                        /\ pc' = "unwind"
                        /\ mig' = [mig EXCEPT !.reports = Append(@, "performing")]
                   ELSE /\ mig' = [mig EXCEPT !.reports = Append(@, "performing"),
                                              !.transaction = Some(created.value)]
                        /\ pc' = "migrate_sql"
                        /\ UNCHANGED result
    /\ UNCHANGED <<now, migrations, server, cmd, gen, bd, handles,
                   file_paths, parsed, file_system, sql_files, slug_text, slug_made,
                   operators, live_before, migra_output, diff_returned>>

\* Dropping the Transaction without commit rolls it back.
Rollback(m) == [m EXCEPT !.transaction = None]

SqlFaults == {"none", "open", "batch_execute"}

\* Lines 585-590: the migration's SQL, inside the transaction.
migrate_sql ==
    /\ pc = "migrate_sql"
    /\ LET file == mig.migration_files[mig.index + 1]
           transaction == mig.transaction[1]
       IN
       IF ~executes_sql(file.is_onboard, mig.actually_perform_onboard_migrations)
       THEN /\ pc' = "migrate_insert"
            /\ UNCHANGED <<mig, result, hist>>
       ELSE \E fault \in SqlFaults :
            LET executed == batch_execute_sql(transaction.schema,
                                              ReadFile(migrations, file.file_path))
            IN  /\ MayFail(fault # "none")
                /\ hist' = Faulted(hist, fault # "none")
                /\ IF fault # "none" \/ ~executed.ok
                   THEN /\ result' = Err("db error", <<>>)
                        /\ pc' = "unwind"
                        /\ mig' = Rollback(mig)
                   ELSE /\ mig' = [mig EXCEPT
                              !.transaction = Some([transaction EXCEPT
                                  !.schema = executed.value,
                                  !.executed = @ \cup {file.current_version}]),
                              !.executed = @ \cup {file.current_version}]
                        /\ pc' = "migrate_insert"
                        /\ UNCHANGED result
    /\ UNCHANGED <<now, migrations, live, server, cmd, gen, bd, handles,
                   file_paths, parsed, file_system, sql_files, slug_text, slug_made,
                   operators, live_before, migra_output, diff_returned>>

\* Lines 592-594: the bookkeeping row, inside the transaction.
migrate_insert ==
    /\ pc = "migrate_insert"
    /\ \E fault \in BOOLEAN :
        LET file == mig.migration_files[mig.index + 1]
            transaction == mig.transaction[1]
            inserted == insert_version(transaction, file.current_version,
                                       file.previous_version)
        IN  /\ MayFail(fault)
            /\ hist' = Faulted(hist, fault)
            /\ IF fault \/ ~inserted.ok
               THEN /\ result' = Err("db error", <<>>)
                    /\ pc' = "unwind"
                    /\ mig' = Rollback(mig)
               ELSE /\ mig' = [mig EXCEPT
                          !.transaction = Some(inserted.value),
                          !.inserted = @ \cup (inserted.value.rows \ transaction.rows)]
                    /\ pc' = "migrate_commit"
                    /\ UNCHANGED result
    /\ UNCHANGED <<now, migrations, live, server, cmd, gen, bd, handles,
                   file_paths, parsed, file_system, sql_files, slug_text, slug_made,
                   operators, live_before, migra_output, diff_returned>>

\* Line 595: transaction.commit().
migrate_commit ==
    /\ pc = "migrate_commit"
    /\ \E fault \in BOOLEAN :
        /\ MayFail(fault)
        /\ hist' = Faulted(hist, fault)
        /\ IF fault
           THEN /\ result' = Err("db error", <<>>)
                /\ pc' = "unwind"
                /\ mig' = Rollback(mig)
                /\ UNCHANGED live
           ELSE /\ live' = commit(live, mig.transaction[1])
                /\ mig' = [Rollback(mig) EXCEPT !.index = @ + 1]
                /\ pc' = "migrate_loop"
                /\ UNCHANGED result
    /\ UNCHANGED <<now, migrations, server, cmd, gen, bd, handles,
                   file_paths, parsed, file_system, sql_files, slug_text, slug_made,
                   operators, live_before, migra_output, diff_returned>>

(***************************************************************************)
(* Leaving a function: the TempDb values in scope are dropped, last        *)
(* declared first, whether the function returns Ok or Err.                 *)
(***************************************************************************)
drop_TempDb ==
    /\ pc = "unwind"
    /\ handles # <<>>
    /\ \E fails \in BOOLEAN :
        LET dbname == handles[Len(handles)] IN
        /\ MayFail(fails)
        /\ server' = TempDb_drop(server, dbname, fails)
        /\ hist' = [Faulted(hist, fails) EXCEPT !.drop_attempted = @ \cup {dbname},
                                !.drop_failed = IF fails THEN @ \cup {dbname} ELSE @]
    /\ handles' = SubSeq(handles, 1, Len(handles) - 1)
    /\ UNCHANGED <<now, migrations, live, cmd, pc, gen, mig, bd, result,
                   file_paths, parsed, file_system, sql_files, slug_text, slug_made,
                   operators, live_before, migra_output, diff_returned>>

\* The command has returned to main: the process exits.
Finish ==
    /\ pc' = "idle"
    /\ cmd' = NoCmd
    /\ gen' = NoGen
    /\ mig' = NoMig
    /\ bd' = NoBd
    /\ result' = Ok(<<>>)
    /\ hist' = [hist EXCEPT
          !.after_migrate = cmd.name = "migrate" /\ result.ok /\ ~mig.dry_run,
          !.only_generate_compact = @ /\ result.ok /\ cmd.name \in {"generate", "compact"},
          !.only_successful = @ /\ result.ok /\ cmd.name \in {"generate", "migrate", "compact"},
          !.obtained = {}, !.drop_attempted = {}, !.drop_failed = {},
          !.connected = None, !.server_before = {}]

\* A function returns: to command_compact when it called (lines 525-530, each
\* call followed by `?`), to main otherwise.
return ==
    /\ pc = "unwind"
    /\ handles = <<>>
    /\ IF cmd.name = "compact" /\ result.ok /\ cmd.phase = 1
       THEN /\ cmd' = [cmd EXCEPT !.phase = 2]
            /\ mig' = [NoMig EXCEPT !.rows_before = live.rows]
            /\ pc' = "command_migrate"
            /\ hist' = [hist EXCEPT !.obtained = {}, !.drop_attempted = {}, !.drop_failed = {}]
            /\ UNCHANGED <<gen, bd, result>>
       ELSE IF cmd.name = "compact" /\ result.ok /\ cmd.phase = 2
       THEN /\ cmd' = [cmd EXCEPT !.phase = 3]
            /\ pc' = "compact_purge"
            /\ UNCHANGED <<gen, mig, bd, result, hist>>
       ELSE IF cmd.name = "compact" /\ result.ok /\ cmd.phase = 4
       THEN /\ cmd' = [cmd EXCEPT !.phase = 5, !.current_version = result.value]
            /\ pc' = "compact_seed"
            /\ hist' = [hist EXCEPT !.obtained = {}, !.drop_attempted = {}, !.drop_failed = {}]
            /\ UNCHANGED <<gen, mig, bd, result>>
       ELSE Finish
    /\ UNCHANGED <<now, migrations, live, server, handles, file_paths, parsed, file_system, sql_files, slug_text, slug_made,
                   operators, live_before, migra_output, diff_returned>>

(***************************************************************************)
(* command_compact (lines 523-538)                                         *)
(***************************************************************************)
\* Command::Compact
main_compact ==
    /\ Dispatch("compact")
    /\ pc' = "command_compact"
    /\ UNCHANGED <<now, migrations, live, server, gen, mig, bd, handles, result,
                   file_paths, parsed, file_system, sql_files, slug_text, slug_made,
                   operators, live_before, migra_output, diff_returned>>

\* Lines 524-525: connect, then command_generate(args, "ensuring_current", false).
command_compact ==
    /\ pc = "command_compact"
    /\ \E fault \in BOOLEAN :
        /\ MayFail(fault)
        /\ hist' = Faulted(hist, fault)
        /\ IF fault
           THEN /\ result' = Err("Failed to connect to database", <<>>)
                /\ pc' = "unwind"
                /\ UNCHANGED <<cmd, gen>>
           ELSE /\ cmd' = [cmd EXCEPT !.phase = 1]
                /\ gen' = [NoGen EXCEPT !.raw_description = ENSURING_CURRENT]
                /\ pc' = "command_generate"
                /\ UNCHANGED result
    /\ UNCHANGED <<now, migrations, live, server, mig, bd, handles,
                   file_paths, parsed, file_system, sql_files, slug_text, slug_made,
                   operators, live_before, migra_output, diff_returned>>

\* Lines 528-530: purge_directory, ensure_directory, then
\* command_generate(args, "compacted_initial", false).  remove_dir_all that
\* fails has removed some of the entries.
compact_purge ==
    /\ pc = "compact_purge"
    /\ \E fault \in BOOLEAN :
        /\ MayFail(fault)
        /\ hist' = Faulted(hist, fault)
        /\ IF fault
           THEN /\ \E kept \in SUBSET (DOMAIN migrations) :
                      migrations' = [n \in kept |-> migrations[n]]
                /\ result' = Err("io error", <<>>)
                /\ pc' = "unwind"
                /\ UNCHANGED <<cmd, gen>>
           ELSE /\ migrations' = NoFiles
                /\ cmd' = [cmd EXCEPT !.phase = 4]
                /\ gen' = [NoGen EXCEPT !.raw_description = COMPACTED_INITIAL]
                /\ pc' = "command_generate"
                /\ UNCHANGED result
    /\ UNCHANGED <<now, live, server, mig, bd, handles, file_paths, parsed, file_system, sql_files, slug_text, slug_made,
                   operators, live_before, migra_output, diff_returned>>

\* Lines 533-537: truncate and insert in one batch.
compact_seed ==
    /\ pc = "compact_seed"
    /\ \E fault \in BOOLEAN :
        LET seeded == truncate_and_seed(live, cmd.current_version) IN
        /\ MayFail(fault)
        /\ hist' = Faulted(hist, fault)
        /\ IF fault \/ ~seeded.ok
           THEN /\ result' = Err("db error", <<>>)
                /\ UNCHANGED live
           ELSE /\ result' = Ok(<<>>)
                /\ live' = seeded.value
    /\ pc' = "unwind"
    /\ UNCHANGED <<now, migrations, server, cmd, gen, mig, bd, handles,
                   file_paths, parsed, file_system, sql_files, slug_text, slug_made,
                   operators, live_before, migra_output, diff_returned>>

(***************************************************************************)
(* compute_backend_diff, ensure_db, command_diff, command_check            *)
(* (lines 651-704)                                                         *)
(***************************************************************************)
\* Command::Diff and Command::Check
main_diff_check ==
    /\ \E name \in {"diff", "check"}, source \in Backends, target \in Backends :
          /\ Dispatch(name)
          /\ bd' = [NoBd EXCEPT !.source = source, !.target = target]
    /\ pc' = "compute_backend_diff"
    /\ UNCHANGED <<now, migrations, live, server, gen, mig, handles, result,
                   file_paths, parsed, file_system, sql_files, slug_text, slug_made,
                   operators, live_before, migra_output, diff_returned>>

\* Mutant: a backend may be diffed against itself.
same_backend_Never(source, target) == FALSE

\* Line 674.
same_backend(source, target) == source = target

\* Line 679: one side is the live database.
probes_version_table(source, target) == source = "Database" \/ target = "Database"

\* Lines 674-686.
compute_backend_diff ==
    /\ pc = "compute_backend_diff"
    /\ \E fault \in BOOLEAN :
        /\ MayFail(fault)
        /\ fault => (~same_backend(bd.source, bd.target)
                     /\ probes_version_table(bd.source, bd.target))
        /\ hist' = Faulted(hist, fault)
        /\ IF same_backend(bd.source, bd.target)
           THEN /\ result' = Err("can't diff {:?} against itself", <<>>)
                /\ pc' = "unwind"
                /\ UNCHANGED bd
           ELSE IF fault
           THEN /\ result' = Err("db error", <<>>)
                /\ pc' = "unwind"
                /\ UNCHANGED bd
           ELSE /\ bd' = [bd EXCEPT !.need_version_table =
                             /\ probes_version_table(bd.source, bd.target)
                             /\ VERSIONS_TABLE \in live.schema]
                /\ pc' = "ensure_db_source"
                /\ UNCHANGED result
    /\ UNCHANGED <<now, migrations, live, server, cmd, gen, mig, handles,
                   file_paths, parsed, file_system, sql_files, slug_text, slug_made,
                   operators, live_before, migra_output, diff_returned>>

EmptyDb == [schema |-> {}, rows |-> {}, executed |-> {}]

\* The closure do_it after TempDb::new (lines 654-658): the version table when
\* needed, then every .sql file of the directory in sorted order.
ensure_db_fill(backend, need_version_table, schema) ==
    LET paths == list_sql_files(DEFAULT_MIGRATIONS_DIRECTORY, migrations)
        contents == IF backend = "Migrations"
                    THEN [i \in 1..Len(paths) |-> ReadFile(migrations, paths[i])]
                    ELSE <<Diff({}, schema)>>
        created == IF need_version_table THEN create_versions_table(EmptyDb)
                   ELSE Ok(EmptyDb)
    IN  IF ~created.ok THEN created
        ELSE apply_sql_contents(created.value.schema, contents)

ensure_db_suffix(backend) == IF backend = "Migrations" THEN "migrations" ELSE "schema"

\* Line 687: ensure_db for the source.
ensure_db_source ==
    /\ pc = "ensure_db_source"
    /\ IF bd.source = "Database"
       THEN /\ bd' = [bd EXCEPT !.source_schema = live.schema]
            /\ pc' = "ensure_db_target"
            /\ UNCHANGED <<now, server, handles, hist, result, cmd, live>>
       ELSE \E schema \in IF bd.source = "Schema" THEN schema_directory ELSE {{}} :
            LET filled == ensure_db_fill(bd.source, bd.need_version_table, schema)
            IN  /\ AcquireTempDb(ensure_db_suffix(bd.source), filled, "ensure_db_target")
                /\ bd' = IF pc' = "unwind" THEN bd
                         ELSE [bd EXCEPT !.source_schema = filled.value]
                /\ cmd' = IF pc' = "unwind" \/ bd.source # "Schema" THEN cmd
                          ELSE [cmd EXCEPT !.schema = Some(schema)]
                /\ live' = IF handles' = handles THEN live
                           ELSE live_after_fill(live, filled)
    /\ UNCHANGED <<migrations, gen, mig, file_paths, parsed, file_system, sql_files, slug_text, slug_made,
                   operators, live_before, migra_output, diff_returned>>

\* Line 688: ensure_db for the target.
ensure_db_target ==
    /\ pc = "ensure_db_target"
    /\ IF bd.target = "Database"
       THEN /\ bd' = [bd EXCEPT !.target_schema = live.schema]
            /\ pc' = "command_diff_check"
            /\ UNCHANGED <<now, server, handles, hist, result, cmd, live>>
       ELSE \E schema \in IF bd.target = "Schema" THEN schema_directory ELSE {{}} :
            LET filled == ensure_db_fill(bd.target, bd.need_version_table, schema)
            IN  /\ AcquireTempDb(ensure_db_suffix(bd.target), filled, "command_diff_check")
                /\ bd' = IF pc' = "unwind" THEN bd
                         ELSE [bd EXCEPT !.target_schema = filled.value]
                /\ cmd' = IF pc' = "unwind" \/ bd.target # "Schema" THEN cmd
                          ELSE [cmd EXCEPT !.schema = Some(schema)]
                /\ live' = IF handles' = handles THEN live
                           ELSE live_after_fill(live, filled)
    /\ UNCHANGED <<migrations, gen, mig, file_paths, parsed, file_system, sql_files, slug_text, slug_made,
                   operators, live_before, migra_output, diff_returned>>

\* Mutant: check succeeds whatever the diff.
check_fails_Never(diff) == FALSE

\* Line 700: !diff.is_empty()
check_fails(diff) == diff # EmptyDiff

\* Line 689 and lines 692-704: compute_diff, then print it (diff) or fail on
\* a diff that is not empty (check).
command_diff_check ==
    /\ pc = "command_diff_check"
    /\ \E fault \in BOOLEAN :
        LET diff == Diff(bd.source_schema, bd.target_schema) IN
        /\ MayFail(fault)
        /\ hist' = Faulted(hist, fault)
        /\ result' = IF fault THEN Err("migra failed", <<>>)
                     ELSE IF cmd.name = "check" /\ check_fails(diff)
                     THEN Err("diff isn't empty:\n\n{diff}", <<>>)
                     ELSE Ok(diff)
    /\ pc' = "unwind"
    /\ UNCHANGED <<now, migrations, live, server, cmd, gen, mig, bd, handles,
                   file_paths, parsed, file_system, sql_files, slug_text, slug_made,
                   operators, live_before, migra_output, diff_returned>>

(***************************************************************************)
(* connect_database (lines 25-41)                                          *)
(***************************************************************************)
\* What the environment does to a connection attempt: whether
\* make_tls_connector builds a connector, whether the server completes a TLS
\* connection, whether it completes a plaintext one.
Networks == [make_tls_connector : BOOLEAN, tls : BOOLEAN, plaintext : BOOLEAN]

\* The client of an Ok, with the connections attempted in order; an Err
\* carries the attempts too (history only).
Connected(transport, attempts) == Ok([transport |-> transport, attempts |-> attempts])
NotConnected(attempts) ==
    [Err("Failed to connect to database", <<>>) EXCEPT
        !.value = [transport |-> "", attempts |-> attempts]]

\* Mutant: no fallback after a failed TLS connection.
connect_database_TlsOnly(network) ==
    IF network.make_tls_connector
    THEN IF network.tls
         THEN Connected("MakeTlsConnector", <<"MakeTlsConnector">>)
         ELSE NotConnected(<<"MakeTlsConnector">>)
    ELSE IF network.plaintext
         THEN Connected("NoTls", <<"NoTls">>)
         ELSE NotConnected(<<"NoTls">>)

connect_database(network) ==
    IF network.make_tls_connector
    THEN IF network.tls
         THEN Connected("MakeTlsConnector", <<"MakeTlsConnector">>)
         ELSE IF network.plaintext
         THEN Connected("NoTls", <<"MakeTlsConnector", "NoTls">>)
         ELSE NotConnected(<<"MakeTlsConnector", "NoTls">>)
    ELSE IF network.plaintext
         THEN Connected("NoTls", <<"NoTls">>)
         ELSE NotConnected(<<"NoTls">>)

(***************************************************************************)
(* command_clean (lines 620-636)                                           *)
(***************************************************************************)
\* Command::Clean
main_clean ==
    /\ Dispatch("clean")
    /\ pc' = "command_clean"
    /\ UNCHANGED <<now, migrations, live, server, gen, mig, bd, handles, result,
                   file_paths, parsed, file_system, sql_files, slug_text, slug_made,
                   operators, live_before, migra_output, diff_returned>>

\* Mutant: the where clause is left out.
clean_query_All(dbs) == dbs

\* Lines 622-628: the databases joined with their descriptions, where the
\* description is TEMP_DB_COMMENT.
clean_query(dbs) == {d \in dbs : d.tagged}

CleanFaults == {"none", "query", "batch_execute"}

\* Lines 621-635.  The rows come in no stated order; when a drop fails the
\* rows before it have been dropped (`dropped`) and the loop is left.
command_clean ==
    /\ pc = "command_clean"
    /\ \E network \in Networks, fault \in CleanFaults :
        \E connected \in {connect_database(network)} :
        \E rows \in {clean_query(server)} :
          /\ MayFail(~connected.ok \/ fault # "none")
          /\ ~connected.ok => fault = "none"
          /\ fault = "batch_execute" => rows # {}
          /\ hist' = [Faulted(hist, ~connected.ok \/ fault # "none") EXCEPT
                         !.connected = Some([network |-> network, returned |-> connected]),
                         !.server_before = server]
          /\ IF ~connected.ok
             THEN /\ result' = Err(connected.err.kind, <<>>)
                  /\ server' = server
             ELSE IF fault = "query"
             THEN /\ result' = Err("query", <<>>)
                  /\ server' = server
             ELSE IF fault = "batch_execute"
             THEN /\ result' = Err("batch_execute", <<>>)
                  /\ \E failing \in rows :
                     \E dropped \in SUBSET (rows \ {failing}) :
                        server' = server \ dropped
             ELSE /\ result' = Ok(<<>>)
                  /\ server' = server \ rows
    /\ pc' = "unwind"
    /\ UNCHANGED <<now, migrations, live, cmd, gen, mig, bd, handles,
                   file_paths, parsed, file_system, sql_files, slug_text, slug_made,
                   operators, live_before, migra_output, diff_returned>>

Next ==
    \/ main_clean
    \/ command_clean
    \/ main_generate

    \/ command_generate
    \/ generate_source
    \/ generate_target
    \/ generate_write
    \/ main_migrate
    \/ command_migrate
    \/ migrate_file
    \/ migrate_sql
    \/ migrate_insert
    \/ migrate_commit
    \/ main_compact
    \/ command_compact
    \/ compact_purge
    \/ compact_seed
    \/ main_diff_check
    \/ compute_backend_diff
    \/ ensure_db_source
    \/ ensure_db_target
    \/ command_diff_check
    \/ drop_TempDb
    \/ return

Spec == Init /\ [][Next]_vars


(***************************************************************************)
(* SpecParse: MigrationFile::vec_from_paths on its own, as the unit test   *)
(* test_migration_files_vec_from_paths (lines 296-363) calls it: on any    *)
(* vector of paths, sorted or not.                                         *)
(***************************************************************************)
\* "err"
ERR_DIRECTORY == <<101, 114, 114>>
\* "short"
SHORT == <<115, 104, 111, 114, 116>>
\* "nodots"
NODOTS == <<110, 111, 100, 111, 116, 115>>

\* Three version strings, one second apart.
Version(k) == create_timestamp(ClockStart + k - 1)

\* The paths the vectors are made of: err/<current>.<previous>.sql for
\* well-formed and short version strings and the two literals, a name with
\* one portion, a name with no dot, and a path that has no file name.
PathPool ==
    {PathJoin(ERR_DIRECTORY, Join(<<c, p, sql_extension>>, DOT)) :
        c \in {Version(1), Version(2), Version(3)},
        p \in {get_null_string, ONBOARD, Version(1), Version(2)}}
    \cup {PathJoin(ERR_DIRECTORY, Join(<<SHORT, get_null_string, sql_extension>>, DOT)),
          PathJoin(ERR_DIRECTORY, Join(<<SHORT, sql_extension>>, DOT)),
          PathJoin(ERR_DIRECTORY, NODOTS),
          PathJoin(ERR_DIRECTORY, <<DOT, DOT>>)}

PathVectors == UNION {[1..n -> PathPool] : n \in 0..MaxPaths}

InitParse ==
    /\ now = ClockStart
    /\ migrations = NoFiles
    /\ live = [schema |-> {}, rows |-> {}, executed |-> {}]
    /\ server = {}
    /\ cmd = NoCmd
    /\ pc = "idle"
    /\ gen = NoGen
    /\ mig = NoMig
    /\ bd = NoBd
    /\ handles = <<>>
    /\ result = Ok(<<>>)
    /\ hist = NoHist
    /\ file_paths \in PathVectors
    /\ parsed = None
    /\ file_system = {}
    /\ sql_files = None
    /\ slug_text = <<>>
    /\ slug_made = None
    /\ migra_output = None
    /\ diff_returned = None
    /\ operators = <<>>
    /\ live_before = [schema |-> {}, rows |-> {}, executed |-> {}]

\* MigrationFile::vec_from_paths(file_paths)
call_vec_from_paths ==
    /\ parsed = None
    /\ parsed' = Some(vec_from_paths(file_paths))
    /\ UNCHANGED <<now, migrations, live, server, cmd, pc, gen, mig, bd, handles,
                   result, hist, file_paths, file_system, sql_files, slug_text, slug_made,
                   operators, live_before, migra_output, diff_returned>>

NextParse == call_vec_from_paths

SpecParse == InitParse /\ [][NextParse]_vars

(***************************************************************************)
(* SpecList: list_sql_files on its own, on file systems made of the        *)
(* entries the unit tests test_list_sql_files and                          *)
(* test_list_sql_files_nested_schema create (lines 155-226).               *)
(***************************************************************************)
EntryPool == {
    \* "schema" (a directory)
    FsEntry(<<115, 99, 104, 101, 109, 97>>, TRUE),
    \* "schema/00.sql"
    FsEntry(<<115, 99, 104, 101, 109, 97, 47, 48, 48, 46, 115, 113, 108>>, FALSE),
    \* "migrations" (a directory)
    FsEntry(<<109, 105, 103, 114, 97, 116, 105, 111, 110, 115>>, TRUE),
    \* "migrations/10_yo.sql"
    FsEntry(<<109, 105, 103, 114, 97, 116, 105, 111, 110, 115, 47, 49, 48, 95, 121, 111, 46, 115, 113, 108>>, FALSE),
    \* "migrations/20_yo.sql"
    FsEntry(<<109, 105, 103, 114, 97, 116, 105, 111, 110, 115, 47, 50, 48, 95, 121, 111, 46, 115, 113, 108>>, FALSE),
    \* "migrations/40.txt"
    FsEntry(<<109, 105, 103, 114, 97, 116, 105, 111, 110, 115, 47, 52, 48, 46, 116, 120, 116>>, FALSE),
    \* "migrations/yo"
    FsEntry(<<109, 105, 103, 114, 97, 116, 105, 111, 110, 115, 47, 121, 111>>, FALSE),
    \* "migrations/.sql"
    FsEntry(<<109, 105, 103, 114, 97, 116, 105, 111, 110, 115, 47, 46, 115, 113, 108>>, FALSE),
    \* "migrations/yoyo.sql" (a directory)
    FsEntry(<<109, 105, 103, 114, 97, 116, 105, 111, 110, 115, 47, 121, 111, 121, 111, 46, 115, 113, 108>>, TRUE),
    \* "migrations/yoyo.sql/05.sql"
    FsEntry(<<109, 105, 103, 114, 97, 116, 105, 111, 110, 115, 47, 121, 111, 121, 111, 46, 115, 113, 108, 47, 48, 53, 46, 115, 113, 108>>, FALSE),
    \* "migrations/agh" (a directory)
    FsEntry(<<109, 105, 103, 114, 97, 116, 105, 111, 110, 115, 47, 97, 103, 104>>, TRUE),
    \* "migrations/agh/15.sql"
    FsEntry(<<109, 105, 103, 114, 97, 116, 105, 111, 110, 115, 47, 97, 103, 104, 47, 49, 53, 46, 115, 113, 108>>, FALSE)
}

\* Path::parent of a relative path: None for a path of one component.
PathParent(path) ==
    LET components == PathComponents(path)
    IN  IF Len(components) < 2 THEN None
        ELSE Some(Join(SubSeq(components, 1, Len(components) - 1), SLASH))

\* Every entry lies in a directory that is there.
FileSystems ==
    {entries \in SUBSET EntryPool :
        \A e \in entries :
            PathParent(e.path) # None =>
                FsEntry(PathParent(e.path)[1], TRUE) \in entries}

InitList ==
    /\ now = ClockStart
    /\ migrations = NoFiles
    /\ live = [schema |-> {}, rows |-> {}, executed |-> {}]
    /\ server = {}
    /\ cmd = NoCmd
    /\ pc = "idle"
    /\ gen = NoGen
    /\ mig = NoMig
    /\ bd = NoBd
    /\ handles = <<>>
    /\ result = Ok(<<>>)
    /\ hist = NoHist
    /\ file_paths = <<>>
    /\ parsed = None
    /\ file_system \in FileSystems
    /\ sql_files = None
    /\ slug_text = <<>>
    /\ slug_made = None
    /\ migra_output = None
    /\ diff_returned = None
    /\ operators = <<>>
    /\ live_before = [schema |-> {}, rows |-> {}, executed |-> {}]

\* list_sql_files(DEFAULT_MIGRATIONS_DIRECTORY)
call_list_sql_files ==
    /\ sql_files = None
    /\ sql_files' = Some(list_sql_files_in(DEFAULT_MIGRATIONS_DIRECTORY, file_system))
    /\ UNCHANGED <<now, migrations, live, server, cmd, pc, gen, mig, bd, handles,
                   result, hist, file_paths, parsed, file_system, slug_text, slug_made,
                   operators, live_before, migra_output, diff_returned>>

NextList == call_list_sql_files

SpecList == InitList /\ [][NextList]_vars

(***************************************************************************)
(* SpecSlug: make_slug on its own, on every text of at most MaxText bytes  *)
(* of SlugBytes.                                                           *)
(***************************************************************************)
\* 'A', 'b', '1', '_', ' ', '.', '!', 'Σ', 'σ'
SlugBytes == {65, 98, 49, UNDERSCORE, SPACE, DOT, 33, CAPITAL_SIGMA, SMALL_SIGMA}
Texts == UNION {[1..n -> SlugBytes] : n \in 0..MaxText}

InitSlug ==
    /\ now = ClockStart
    /\ migrations = NoFiles
    /\ live = [schema |-> {}, rows |-> {}, executed |-> {}]
    /\ server = {}
    /\ cmd = NoCmd
    /\ pc = "idle"
    /\ gen = NoGen
    /\ mig = NoMig
    /\ bd = NoBd
    /\ handles = <<>>
    /\ result = Ok(<<>>)
    /\ hist = NoHist
    /\ file_paths = <<>>
    /\ parsed = None
    /\ file_system = {}
    /\ sql_files = None
    /\ slug_text \in Texts
    /\ slug_made = None
    /\ migra_output = None
    /\ diff_returned = None
    /\ operators = <<>>
    /\ live_before = [schema |-> {}, rows |-> {}, executed |-> {}]

\* make_slug(slug_text)
call_make_slug ==
    /\ slug_made = None
    /\ slug_made' = Some(make_slug(slug_text))
    /\ UNCHANGED <<now, migrations, live, server, cmd, pc, gen, mig, bd, handles,
                   result, hist, file_paths, parsed, file_system, sql_files, slug_text,
                   operators, live_before, migra_output, diff_returned>>

NextSlug == call_make_slug

SpecSlug == InitSlug /\ [][NextSlug]_vars

(***************************************************************************)
(* Properties of vec_from_paths, checked under SpecParse.                  *)
(***************************************************************************)
\* The previous-version slot of a path's file name: its second portion.
previous_slot(path) ==
    LET file_name == PathFileName(path) IN
    IF file_name = None THEN None
    ELSE LET portions == Split(file_name[1], DOT) IN
         IF Len(portions) < 2 THEN None ELSE Some(portions[2])

\* The values interpolated into the diagnostic.
Mentions(err, text) == \E j \in 1..Len(err.args) : err.args[j] = text

C8_DiagnosticNamesAPath ==
    (parsed # None /\ ~parsed[1].ok) =>
        \E i \in 1..Len(file_paths) :
            Mentions(parsed[1].err, to_string_lossy(file_paths[i]))

\* C9: when the files before a later file are accepted and that later file has
\* null in its previous slot, the vector is rejected with the diagnostic "null
\* or onboard previous_version in migration that isn't the first".
C9_LaterNullIsReportedNotFirst ==
    \A i \in 2..Len(file_paths) :
        (/\ parsed # None
         /\ vec_from_paths(SubSeq(file_paths, 1, i - 1)).ok
         /\ previous_slot(file_paths[i]) = Some(get_null_string))
        => /\ ~parsed[1].ok
           /\ parsed[1].err.kind = "null or onboard previous_version in migration that isn't the first: {display_file_path}"

\* C10: "onboard" in the previous slot is accepted for the file at index 0
\* only: a vector with it in a later file is rejected; in an accepted vector
\* the file is onboard exactly when it is the first and its slot says onboard,
\* an onboard file's previous_version is the null string, and the second
\* file's previous_version is the first file's current_version.
C10_OnboardOnlyFirst ==
    parsed # None =>
        /\ (\E i \in 2..Len(file_paths) : previous_slot(file_paths[i]) = Some(ONBOARD))
              => ~parsed[1].ok
        /\ parsed[1].ok =>
              \A i \in 1..Len(parsed[1].value) :
                  LET file == parsed[1].value[i] IN
                  /\ file.is_onboard <=>
                        (i = 1 /\ previous_slot(file_paths[1]) = Some(ONBOARD))
                  /\ file.is_onboard => file.previous_version = get_null_string
                  /\ i = 2 => file.previous_version = parsed[1].value[1].current_version

\* An onboard file followed by a file that links to it is accepted.
C10_Witness ==
    /\ parsed # None
    /\ parsed[1].ok
    /\ Len(parsed[1].value) >= 2
    /\ parsed[1].value[1].is_onboard
    /\ previous_slot(file_paths[1]) = Some(ONBOARD)

\* C11: in a chain vec_from_paths accepted, the edges (previous_version,
\* current_version) form one path from the null string to the last
\* current_version, current_version increases strictly along it, and the
\* file names are in the same strict order.
C11_ChainIsOneAscendingPath ==
    (parsed # None /\ parsed[1].ok) =>
        LET files == parsed[1].value IN
        /\ Len(files) > 0 => files[1].previous_version = get_null_string
        /\ \A i \in 2..Len(files) :
              files[i].previous_version = files[i - 1].current_version
        /\ \A i, j \in 1..Len(files) :
              i < j => /\ StrLt(files[i].current_version, files[j].current_version)
                       /\ StrLt(PathFileName(file_paths[i])[1],
                                PathFileName(file_paths[j])[1])

\* A chain of three files that starts at null and is not onboard.
C11_Witness ==
    /\ parsed # None
    /\ parsed[1].ok
    /\ Len(parsed[1].value) = 3
    /\ ~parsed[1].value[1].is_onboard
    /\ parsed[1].value[3].previous_version = parsed[1].value[2].current_version

(***************************************************************************)
(* Properties of the commands, checked under Spec.                         *)
(***************************************************************************)
\* command_migrate is running or returning: called by main, or by
\* command_compact (line 526).
InApply == cmd.name = "migrate" \/ (cmd.name = "compact" /\ cmd.phase = 2)

\* The function main called is about to return to it.
Returning(name) == pc = "unwind" /\ handles = <<>> /\ cmd.name = name

\* C2: a command_migrate (no dry run) that directly follows a successful one
\* executes no migration SQL, inserts no row and reports nothing but "not
\* performing" at any point of its run, leaves the rows of _schema_versions
\* as it found them, and when it returns Ok it has reported every file.
C2_RepeatedMigrateDoesNothing ==
    mig.repeat =>
        /\ mig.executed = {}
        /\ mig.inserted = {}
        /\ \A i \in 1..Len(mig.reports) : mig.reports[i] = "not performing"
        /\ live.rows = mig.rows_before
        /\ (pc = "unwind" /\ result.ok) => Len(mig.reports) = Len(mig.migration_files)

\* The second run returns Ok on a chain that has a migration.
C2_Witness ==
    /\ mig.repeat
    /\ Returning("migrate")
    /\ result.ok
    /\ Len(mig.migration_files) >= 1
    /\ live.rows # {}

\* C3: in every committed state of the live database during command_migrate,
\* for every migration whose SQL this run executed, the effects of the SQL are
\* in the database exactly when its row is in _schema_versions.
C3_SqlAndRowCommittedTogether ==
    InApply =>
        \A v \in mig.executed :
            (v \in live.executed) <=> (\E r \in live.rows : r.current_version = v)

\* A migration's SQL was executed and the run failed before the commit:
\* neither the effects nor the row are in the database.
C3_Witness ==
    /\ Returning("migrate")
    /\ ~result.ok
    /\ \E v \in mig.executed :
          /\ v \notin live.executed
          /\ \A r \in live.rows : r.current_version # v

\* C4: when command_compact returns Ok, the migrations directory holds one
\* file, its previous slot is null, and _schema_versions holds one row: that
\* file's current_version with a NULL previous_version.
C4_CompactLeavesOneFileOneRow ==
    (Returning("compact") /\ cmd.phase = 5 /\ result.ok) =>
        \E gathered \in {gather_validated_migrations(migrations)} :
            /\ Cardinality(DOMAIN migrations) = 1
            /\ gathered.ok
            /\ Len(gathered.value.migration_files) = 1
            /\ previous_slot(gathered.value.migration_files[1].file_path)
                   = Some(get_null_string)
            /\ live.rows = {[current_version |-> gathered.value.current_version[1],
                             previous_version |-> SqlNull]}

\* A compact returns Ok on a database that has a relation of the schema.
C4_Witness ==
    /\ Returning("compact")
    /\ cmd.phase = 5
    /\ result.ok
    /\ "fruit" \in live.schema

\* C5: when every command so far was a generate or a compact that returned Ok
\* and command_generate returns Ok, the directory parses as a valid chain
\* whose last file is the one just written.
C5_GenerateKeepsTheChainValid ==
    (/\ pc = "unwind" /\ handles = <<>>
     /\ cmd.name = "generate" \/ (cmd.name = "compact" /\ cmd.phase \in {1, 4})
     /\ result.ok
     /\ hist.only_generate_compact) =>
        \E gathered \in {gather_validated_migrations(migrations)} :
            /\ gathered.ok
            /\ gathered.value.current_version = Some(result.value)

\* C6: when generate, diff, check or compact returns, a drop was attempted for
\* every TempDb the function obtained, and none of them whose drop did not
\* fail is left on the server.
C6_TempDbsDroppedOnEveryExit ==
    (pc = "unwind" /\ handles = <<>>
     /\ cmd.name \in {"generate", "diff", "check", "compact"}) =>
        /\ hist.obtained \subseteq hist.drop_attempted
        /\ \A dbname \in hist.obtained \ hist.drop_failed :
              \A d \in server : d.name # dbname

\* A command fails after it obtained both handles, and both are dropped.
C6_Witness ==
    /\ pc = "unwind"
    /\ handles = <<>>
    /\ cmd.name \in {"diff", "check"}
    /\ ~result.ok
    /\ Cardinality(hist.obtained) = 2
    /\ hist.drop_attempted = hist.obtained
    /\ hist.drop_failed = {}

\* The file of the running command_migrate a row was inserted for.
migration_file_of(row) ==
    CHOOSE file \in {mig.migration_files[i] : i \in 1..Len(mig.migration_files)} :
        file.current_version = row.current_version

\* C7: every row command_migrate inserts for an onboard migration has a NULL
\* previous_version, and the migration's SQL was executed exactly when
\* actually_perform_onboard_migrations is set; the SQL of every other
\* migration was executed by the time its row is inserted; and a run that
\* returns Ok has inserted the row of every pending migration.
C7_OnboardIsRecordedNotExecuted ==
    InApply =>
        /\ \A row \in mig.inserted :
              \E file \in {migration_file_of(row)} :
                  /\ file.is_onboard =>
                        /\ row.previous_version = SqlNull
                        /\ (row.current_version \in mig.executed)
                               <=> mig.actually_perform_onboard_migrations
                  /\ ~file.is_onboard => row.current_version \in mig.executed
        /\ (pc = "unwind" /\ result.ok /\ ~mig.dry_run) =>
              \A i \in 1..Len(mig.migration_files) :
                  is_pending(mig.migration_files[i].current_version, mig.actual_version)
                      => \E row \in mig.inserted \cap live.rows :
                            row.current_version = mig.migration_files[i].current_version

\* An onboard migration is recorded by a run that does not execute it.
C7_Witness ==
    /\ Returning("migrate")
    /\ result.ok
    /\ ~mig.actually_perform_onboard_migrations
    /\ \E row \in mig.inserted \cap live.rows :
          /\ migration_file_of(row).is_onboard
          /\ row.current_version \notin mig.executed

\* What compute_backend_diff would return for (source, target) in this state
\* with the schema directory holding `schema`, when the environment fails no
\* step (lines 674-689).
backend_diff(source, target, schema) ==
    LET need_version_table ==
            probes_version_table(source, target) /\ VERSIONS_TABLE \in live.schema
        ensured(backend) ==
            IF backend = "Database" THEN Ok(live.schema)
            ELSE ensure_db_fill(backend, need_version_table, schema)
    IN  IF ~ensured(source).ok THEN ensured(source)
        ELSE IF ~ensured(target).ok THEN ensured(target)
        ELSE Ok(Diff(ensured(source).value, ensured(target).value))

\* C12: when command_compact returns Ok, check succeeds for every pair of
\* distinct backends: the live database, the declared schema and the
\* migrations directory materialize to the same structure.
C12_CompactRoundTrip ==
    (Returning("compact") /\ cmd.phase = 5 /\ result.ok) =>
        \A source, target \in Backends :
            ~same_backend(source, target) =>
                \E diff \in {backend_diff(source, target, cmd.schema[1])} :
                    diff.ok /\ ~check_fails(diff.value)

\* C13: command_clean removes the databases whose comment is TEMP_DB_COMMENT
\* and no others: whenever it returns, every database without the tag that
\* was on the server is still there; when it returns Ok the server holds
\* exactly the untagged databases it held before; and when no database was
\* tagged it does not fail in the loop of drops.
C13_CleanRemovesExactlyTheTagged ==
    Returning("clean") =>
        /\ \A d \in hist.server_before : ~d.tagged => d \in server
        /\ result.ok => server = {d \in hist.server_before : ~d.tagged}
        /\ (\A d \in hist.server_before : ~d.tagged) =>
              (result.ok \/ result.err.kind \in {"Failed to connect to database", "query"})
C13_Witness ==
    /\ Returning("clean") /\ result.ok
    /\ \E d \in hist.server_before : d.tagged /\ d \notin server
    /\ \E d \in hist.server_before : ~d.tagged /\ d \in server

\* The schema directory as the running command read it (any, when it did not).
schema_read == IF cmd.schema = None THEN {} ELSE cmd.schema[1]

\* C14: on one state of the database, the migrations directory and the schema
\* directory, check(source, target) returns Ok exactly when the diff of
\* source against target is empty, and fails with "diff isn't empty" exactly
\* when it is not; diff(source, target) prints that same diff.
C14_CheckSucceedsIffDiffIsEmpty ==
    \A diff \in {backend_diff(bd.source, bd.target, schema_read)} :
        /\ (Returning("diff") /\ result.ok) => (diff.ok /\ result.value = diff.value)
        /\ (Returning("check") /\ result.ok) => (diff.ok /\ diff.value = EmptyDiff)
        /\ (Returning("check") /\ ~result.ok
               /\ result.err.kind = "diff isn't empty:\n\n{diff}") =>
              (diff.ok /\ diff.value # EmptyDiff)
C14_Witness ==
    /\ Returning("check") /\ ~result.ok
    /\ result.err.kind = "diff isn't empty:\n\n{diff}"
    /\ bd.source = "Migrations" /\ bd.target = "Schema"
    /\ backend_diff("Migrations", "Schema", schema_read).ok
    /\ backend_diff("Migrations", "Schema", schema_read).value # EmptyDiff

\* C15: command_generate called with is_onboard on a migrations directory
\* that holds a migration returns Err at once: the step writes no file,
\* creates no database on the server and holds no TempDb, so nothing is left
\* to do but return the error to main.
C15_LateOnboardIsRefused ==
    [][(/\ pc = "command_generate"
        /\ gen.is_onboard
        /\ list_sql_files(DEFAULT_MIGRATIONS_DIRECTORY, migrations) # <<>>)
       => (/\ pc' = "unwind"
           /\ ~result'.ok
           /\ migrations' = migrations
           /\ server' = server
           /\ handles' = <<>>
           /\ hist'.obtained = {})]_vars
C15_Witness ==
    /\ Returning("generate")
    /\ gen.is_onboard
    /\ result.err.kind = "can't generate an onboard migration when there are already migrations"
    /\ list_sql_files(DEFAULT_MIGRATIONS_DIRECTORY, migrations) # <<>>
    /\ server = {[name |-> CONFIG_DBNAME, tagged |-> FALSE]}

\* C16: compute_backend_diff called by diff or check with one backend as
\* source and as target returns the error "can't diff ... against itself" in
\* its first step: no connection has been attempted (so none can have
\* failed), no database has been created and no TempDb is held.
C16_SameBackendIsRefusedFirst ==
    [][(pc = "compute_backend_diff" /\ bd.source = bd.target)
       => (/\ pc' = "unwind"
           /\ result' = Err("can't diff {:?} against itself", <<>>)
           /\ hist'.faults = hist.faults
           /\ hist'.obtained = {}
           /\ server' = server
           /\ handles' = <<>>)]_vars
C16_Witness ==
    /\ Returning("check")
    /\ bd.source = "Database" /\ bd.target = "Database"
    /\ result = Err("can't diff {:?} against itself", <<>>)
    /\ hist.obtained = {}

\* C17: connect_database first connects with the TLS connector when one can
\* be built, and connects without TLS exactly when that did not give a
\* client; it returns Ok with the client of the attempt that succeeded iff
\* one of the attempts succeeds, and Err "Failed to connect to database" iff
\* the plaintext attempt, made last, fails too.
C17_TlsThenPlaintext ==
    hist.connected # None =>
        LET network == hist.connected[1].network
            returned == hist.connected[1].returned
            attempts == returned.value.attempts
            tls_client == network.make_tls_connector /\ network.tls
        IN  /\ network.make_tls_connector <=> attempts[1] = "MakeTlsConnector"
            /\ attempts[Len(attempts)] = "NoTls" <=> ~tls_client
            /\ Len(attempts) = IF network.make_tls_connector /\ ~network.tls THEN 2 ELSE 1
            /\ returned.ok <=> (tls_client \/ network.plaintext)
            /\ returned.ok => returned.value.transport = attempts[Len(attempts)]
            /\ ~returned.ok => /\ returned.err.kind = "Failed to connect to database"
                               /\ ~tls_client /\ ~network.plaintext
                               /\ result = Err("Failed to connect to database", <<>>)
C17_Witness ==
    /\ Returning("clean") /\ result.ok
    /\ hist.connected # None
    /\ hist.connected[1].returned.value.attempts = <<"MakeTlsConnector", "NoTls">>
    /\ hist.connected[1].returned.value.transport = "NoTls"

(***************************************************************************)
(* Properties of list_sql_files, checked under SpecList.                   *)
(***************************************************************************)
\* The path is the directory or lies below it: its bytes are the
\* directory's, a '/', and more.
is_below(path, directory) ==
    \/ path = directory
    \/ /\ Len(path) > Len(directory) + 1
       /\ SubSeq(path, 1, Len(directory) + 1) = directory \o <<SLASH>>

\* The bytes after the last '/' are a name of one byte at least and ".sql".
ends_in_dot_sql(path) ==
    \E k \in 1..Len(path) :
        /\ k > 1 => path[k - 1] = SLASH
        /\ \A j \in k..Len(path) : path[j] # SLASH
        /\ Len(path) - k + 1 > Len(sql_extension) + 1
        /\ SubSeq(path, Len(path) - Len(sql_extension), Len(path)) = <<DOT>> \o sql_extension

\* C18: list_sql_files(root) fails exactly when root is not there; otherwise
\* it returns exactly the entries at or below root that are no directories
\* and whose name ends in ".sql", each once and in ascending path order; so
\* directories (named *.sql or not) and files with another or no extension
\* are left out, and a root with nothing in it gives the empty sequence.
C18_ListsExactlyTheSqlFiles ==
    sql_files # None =>
        LET returned == sql_files[1]
            root == DEFAULT_MIGRATIONS_DIRECTORY
            below == {e \in file_system : is_below(e.path, root)}
        IN  /\ returned.ok <=> (\E e \in file_system : e.path = root)
            /\ returned.ok =>
                 /\ {returned.value[i] : i \in 1..Len(returned.value)}
                      = {e.path : e \in {b \in below : ~b.is_dir /\ ends_in_dot_sql(b.path)}}
                 /\ \A i, j \in 1..Len(returned.value) :
                       i < j => PathLt(returned.value[i], returned.value[j])
                 /\ below = {FsEntry(root, TRUE)} => returned.value = <<>>
C18_Witness ==
    /\ sql_files # None /\ sql_files[1].ok
    /\ Len(sql_files[1].value) = 4
    /\ \E e \in file_system : e.is_dir /\ ends_in_dot_sql(e.path)
    /\ \E e \in file_system : ~e.is_dir /\ ~ends_in_dot_sql(e.path) /\ is_below(e.path, DEFAULT_MIGRATIONS_DIRECTORY)
    /\ \E e \in file_system : ends_in_dot_sql(e.path) /\ ~is_below(e.path, DEFAULT_MIGRATIONS_DIRECTORY)

(***************************************************************************)
(* Properties of make_slug, checked under SpecSlug.                        *)
(***************************************************************************)
\* Every maximal run of non-word characters replaced by one '_': a character
\* is kept when it is a word character, turned into '_' when it is the
\* first of a run of others, dropped (0) when it is a later one of a run.
runs_replaced(s) ==
    LET marked == [i \in 1..Len(s) |->
                     IF IsWordByte(s[i]) THEN s[i]
                     ELSE IF i = 1 \/ IsWordByte(s[i - 1]) THEN UNDERSCORE
                     ELSE 0]
    IN  SelectSeq(marked, LAMBDA b : b # 0)

\* C19 as stated: make_slug(text) is the lowercased text with every maximal
\* run of non-word characters replaced by one '_'.
C19_LowercasedThenRunsReplaced ==
    slug_made # None => slug_made[1] = runs_replaced(to_lowercase(slug_text))

\* C19: make_slug(text) is the text with every maximal run of non-word
\* characters replaced by one '_', then lowercased; it agrees with the
\* lowercased text with the runs replaced whenever the text holds no 'Σ';
\* it returns a text of lowercase word characters unchanged; and no slug
\* contains a '.'.
C19_RunsReplacedThenLowercased ==
    slug_made # None =>
        /\ slug_made[1] = to_lowercase(runs_replaced(slug_text))
        /\ (\A i \in 1..Len(slug_text) : slug_text[i] # CAPITAL_SIGMA)
              => slug_made[1] = runs_replaced(to_lowercase(slug_text))
        /\ (\A i \in 1..Len(slug_text) :
               /\ IsWordByte(slug_text[i])
               /\ slug_text[i] \notin 65..90
               /\ slug_text[i] # CAPITAL_SIGMA)
              => slug_made[1] = slug_text
        /\ \A i \in 1..Len(slug_made[1]) : slug_made[1][i] # DOT
C19_Witness ==
    /\ slug_text = <<65, CAPITAL_SIGMA, DOT, 65>>
    /\ slug_made = Some(<<97, FINAL_SIGMA, UNDERSCORE, 97>>)
    /\ runs_replaced(to_lowercase(slug_text)) = <<97, SMALL_SIGMA, UNDERSCORE, 97>>

\* C20: when command_migrate is about to perform the first migration
\* (index 0, pending, no dry run) and _schema_versions is already there, the
\* step that creates the table succeeds all the same when the environment
\* fails nothing: it goes on to the migration's transaction, so an apply
\* retried after the first migration's transaction failed proceeds.
C20_TableCreationIsIdempotent ==
    [][(/\ pc = "migrate_loop"
        /\ ~mig.dry_run
        /\ mig.index = 0
        /\ Len(mig.migration_files) > 0
        /\ is_pending(mig.migration_files[1].current_version, mig.actual_version)
        /\ VERSIONS_TABLE \in live.schema
        /\ hist'.faults = hist.faults)
       => (pc' = "migrate_sql" /\ mig'.transaction # None)]_vars

\* command_migrate has failed in its loop, at the file of index mig.index.
FailedAtFile ==
    /\ InApply
    /\ pc = "unwind"
    /\ ~result.ok
    /\ ~mig.dry_run
    /\ mig.index < Len(mig.migration_files)

\* C21: when command_migrate fails at the migration of index k, the
\* transaction of that migration is gone and neither the effects of its SQL
\* nor its row are in the live database; every pending migration before k
\* has its row, and the effects of its SQL when it was executed, committed;
\* and no migration after k had its SQL executed or its row inserted.
C21_FailureAbortsOneWholeMigration ==
    FailedAtFile =>
          LET files == mig.migration_files
              k == mig.index + 1
          IN  /\ mig.transaction = None
              /\ files[k].current_version \notin live.executed
              /\ \A r \in live.rows : r.current_version # files[k].current_version
              /\ \A j \in 1..(k - 1) :
                    is_pending(files[j].current_version, mig.actual_version) =>
                        /\ \E r \in live.rows : r.current_version = files[j].current_version
                        /\ executes_sql(files[j].is_onboard,
                                        mig.actually_perform_onboard_migrations)
                              => files[j].current_version \in live.executed
              /\ \A j \in (k + 1)..Len(files) :
                    /\ files[j].current_version \notin mig.executed
                    /\ \A r \in mig.inserted : r.current_version # files[j].current_version
C21_Witness ==
    /\ FailedAtFile
    /\ mig.index = 1
    /\ Len(mig.migration_files) = 2
    /\ mig.migration_files[2].current_version \in mig.executed
    /\ mig.migration_files[1].current_version \in live.executed
    /\ mig.migration_files[2].current_version \notin live.executed

\* The version the rows held when command_migrate began: none without rows
\* (no table, or a table without rows), their greatest current_version
\* otherwise.
version_at_start ==
    IF mig.rows_before = {} THEN None
    ELSE Some(CHOOSE v \in {r.current_version : r \in mig.rows_before} :
                  \A r \in mig.rows_before : ~StrLt(v, r.current_version))

\* The file of index i (from 1) is after the version at the start.
after_start(i) ==
    \/ version_at_start = None
    \/ StrLt(version_at_start[1], mig.migration_files[i].current_version)

\* C22: inside command_migrate's loop the version used is the one the
\* database held at the start; each file reported so far was reported as
\* performed exactly when no version was found or its current_version is
\* greater; the files to perform are a suffix of the chain; and the rows
\* inserted so far are those of the first of them, in chain order.
C22_PendingIsASuffixInChainOrder ==
    (InApply /\ pc \in {"migrate_loop", "migrate_sql", "migrate_insert", "migrate_commit"}) =>
        LET files == mig.migration_files IN
        /\ mig.actual_version = version_at_start
        /\ \A i \in 1..Len(mig.reports) :
              mig.reports[i] \in {"performing", "would perform"} <=> after_start(i)
        /\ \A i, j \in 1..Len(files) : (i < j /\ after_start(i)) => after_start(j)
        /\ \A j \in 1..Len(files) :
              (\E r \in mig.inserted : r.current_version = files[j].current_version) =>
                  /\ after_start(j)
                  /\ \A i \in 1..(j - 1) :
                        after_start(i) =>
                            \E r \in mig.inserted \cap live.rows :
                                r.current_version = files[i].current_version
C22_Witness ==
    /\ InApply /\ pc = "migrate_insert"
    /\ Len(mig.migration_files) = 2
    /\ version_at_start = Some(mig.migration_files[1].current_version)
    /\ mig.reports = <<"not performing", "performing">>

\* C23: no step of a command_migrate with dry_run changes the live database
\* (its relations, the rows of _schema_versions, the migrations executed),
\* and when the command returns Ok it has reported every file of the chain,
\* "would perform" for the pending ones and "not would perform" for the
\* others.
C23_DryRunLeavesTheDatabase ==
    [][(cmd.name = "migrate" /\ mig.dry_run)
       => (/\ live' = live
           /\ (pc' = "unwind" /\ result'.ok) =>
                 /\ Len(mig'.reports) = Len(mig'.migration_files)
                 /\ \A i \in 1..Len(mig'.reports) :
                       mig'.reports[i] =
                           IF is_pending(mig'.migration_files[i].current_version,
                                         mig'.actual_version)
                           THEN "would perform" ELSE "not would perform")]_vars
C23_Witness ==
    /\ Returning("migrate") /\ mig.dry_run /\ result.ok
    /\ mig.reports = <<"would perform">>
    /\ VERSIONS_TABLE \notin live.schema
    /\ live.rows = {}


(***************************************************************************)
(* The bookkeeping table against the directory.                            *)
(***************************************************************************)
\* The row a migration file stands for, read off its name
\* <current>.<previous>.<slug>.sql: a previous slot of `null` or `onboard` is
\* recorded as NULL.
edge_of(file_name) ==
    LET portions == Split(file_name, DOT) IN
    [current_version |-> portions[1],
     previous_version |-> IF portions[2] \in {get_null_string, ONBOARD}
                          THEN SqlNull ELSE Some(portions[2])]

directory_edges == {edge_of(file_name) : file_name \in DOMAIN migrations}

\* The rows are the edges of the first files of the directory.
rows_are_a_prefix ==
    /\ live.rows \subseteq directory_edges
    /\ \A r \in live.rows : \A e \in directory_edges :
          StrLt(e.current_version, r.current_version) => e \in live.rows

\* The rows link up from a single row with a NULL previous_version.
rows_are_a_rooted_chain ==
    /\ live.rows # {} => Cardinality({r \in live.rows : r.previous_version = SqlNull}) = 1
    /\ \A r \in live.rows : r.previous_version # SqlNull =>
          /\ StrLt(r.previous_version[1], r.current_version)
          /\ \E q \in live.rows : q.current_version = r.previous_version[1]
    /\ \A r, q \in live.rows : r.current_version = q.current_version => r = q

\* C24: while every command that has finished was a generate, a migrate or a
\* compact that returned Ok, between commands the rows of _schema_versions
\* are the edges of a prefix of the directory's files and link up from one
\* row with a NULL previous_version; and when a migrate (no dry run) or a
\* compact returns Ok the rows are the edges of all the files.
C24_RowsAreAPrefixOfTheChain ==
    hist.only_successful =>
        /\ pc = "idle" => rows_are_a_prefix /\ rows_are_a_rooted_chain
        /\ (/\ result.ok
            /\ \/ Returning("migrate") /\ ~mig.dry_run
               \/ Returning("compact") /\ cmd.phase = 5) =>
              /\ live.rows = directory_edges
              /\ rows_are_a_rooted_chain

\* A migration was generated and applied, and a second one, which follows
\* it in the chain, generated since.
C24_Witness ==
    /\ pc = "idle"
    /\ hist.only_successful
    /\ Cardinality(live.rows) = 1
    /\ Cardinality(directory_edges) = 2
    /\ \E e \in directory_edges \ live.rows :
          \E r \in live.rows : e.previous_version = Some(r.current_version)


(***************************************************************************)
(* The file command_generate writes.                                       *)
(***************************************************************************)
\* The step of command_generate that writes the file and returns Ok.
generate_succeeds == pc = "generate_write" /\ pc' = "unwind" /\ result'.ok

\* The chain of the directory before the step, and the file the step is to
\* write: one new file, named after the returned version, the end of the
\* chain before and the slug, which the directory parses to as its last
\* entry.
writes_the_next_file ==
    \E before \in {gather_validated_migrations(migrations)},
       after \in {gather_validated_migrations(migrations')} :
        LET previous == IF before.value.current_version # None
                        THEN before.value.current_version[1]
                        ELSE IF gen.is_onboard THEN ONBOARD ELSE get_null_string
            name == result'.value \o <<DOT>> \o previous \o <<DOT>>
                        \o make_slug(gen.raw_description) \o <<DOT>> \o sql_extension
        IN  /\ name \notin DOMAIN migrations
            /\ DOMAIN migrations' = DOMAIN migrations \cup {name}
            /\ \A n \in DOMAIN migrations : migrations'[n] = migrations[n]
            /\ after.ok
            /\ after.value.current_version = Some(result'.value)
            /\ \E last \in {after.value.migration_files[Len(after.value.migration_files)]} :
                  /\ PathFileName(last.file_path) = Some(name)
                  /\ last.current_version = result'.value
                  /\ last.is_onboard = gen.is_onboard
                  /\ last.previous_version =
                        IF previous = ONBOARD THEN get_null_string ELSE previous

\* C25: a command_generate that returns Ok has written exactly one new file,
\* <current>.<previous>.<slug>.sql with <previous> the last current_version
\* of the chain, or `onboard` with --onboard, or `null`; and the directory
\* then parses to a chain whose last entry is that file, with the returned
\* current_version and the flag as is_onboard.
C25_GenerateWritesTheNextFile ==
    [][generate_succeeds => writes_the_next_file]_vars

\* The same, for the steps in which the clock returns a second later than
\* the last version of the chain.
C25_WhenTheClockHasAdvanced ==
    [][(generate_succeeds
        /\ gather_validated_migrations(migrations).value.current_version
              # Some(result'.value)) => writes_the_next_file]_vars


(***************************************************************************)
(* Two command_migrate runs against one live database (lines 542-618).     *)
(* Each run is the code of command_migrate without --dry-run; what the     *)
(* database does with their statements is PostgreSQL's read committed      *)
(* isolation: a statement sees what is committed when it starts and what   *)
(* its own transaction did, and it waits for an open transaction of the    *)
(* other run that touched the same relation or the same unique key.        *)
(***************************************************************************)
ApplyOperators == {1, 2}

NoOperator == [at |-> "command_migrate", actually_perform_onboard_migrations |-> FALSE,
               migration_files |-> <<>>, actual_version |-> None, index |-> 0,
               transaction |-> None, returned |-> None, failed_at |-> "",
               committed |-> {}]

\* A transaction that has done nothing yet (line 583).
NoTransaction == [drop |-> {}, create |-> {}, rows |-> {}, executed |-> {}]

\* The database as a statement of the transaction sees it.
seen_by(db, transaction) ==
    [schema |-> (db.schema \ transaction.drop) \cup transaction.create,
     rows |-> db.rows \cup transaction.rows,
     executed |-> db.executed \cup transaction.executed]

\* The open transactions of the other run.
others_in_flight(o) ==
    {operators[other].transaction[1] :
        other \in {x \in ApplyOperators : x # o /\ operators[x].transaction # None}}

\* The migration's SQL waits while the other run's open transaction has
\* created or dropped a relation it creates or drops.
sql_waits(o, sql) ==
    \E t \in others_in_flight(o) :
        (sql.drop \cup sql.create) \cap (t.drop \cup t.create) # {}

\* The insert waits while the other run's open transaction holds an
\* uncommitted row with the same current_version or previous_version.
insert_waits(o, current_version, previous_version) ==
    \E t \in others_in_flight(o) : \E r \in t.rows :
        \/ Some(r.current_version) = SqlChar14(current_version)
        \/ r.previous_version = SqlChar14(previous_version)

\* The directory both runs read: a first migration that creates a relation,
\* onboard or not, and a second one of `content`.
ApplyChain(is_onboard, content) ==
    LET slug == make_slug(CHOOSE description \in RawDescriptions : TRUE)
        first == create_timestamp(ClockStart)
        second == create_timestamp(MaxNow)
    IN  (migration_file_name(first, IF is_onboard THEN ONBOARD ELSE get_null_string, slug)
            :> Diff({}, Objects))
        @@ (migration_file_name(second, first, slug) :> content)

\* The live database before the runs: untouched, or with the first migration
\* applied.  Either run alone would return Ok on it.
InitApply ==
    /\ now = ClockStart
    /\ \E is_onboard \in BOOLEAN, first_applied \in BOOLEAN, perform_onboard \in BOOLEAN,
          content \in {EmptyDiff, Diff(Objects, {})} :
          /\ migrations = ApplyChain(is_onboard, content)
          /\ perform_onboard => is_onboard
          /\ live = [schema |-> (IF first_applied THEN {VERSIONS_TABLE} ELSE {})
                                \cup (IF first_applied \/ (is_onboard /\ ~perform_onboard)
                                      THEN Objects ELSE {}),
                     rows |-> IF first_applied
                              THEN {[current_version |-> create_timestamp(ClockStart),
                                     previous_version |-> SqlNull]}
                              ELSE {},
                     executed |-> IF first_applied /\ (~is_onboard \/ perform_onboard)
                                  THEN {create_timestamp(ClockStart)} ELSE {}]
          /\ operators = [o \in ApplyOperators |->
                [NoOperator EXCEPT !.actually_perform_onboard_migrations = perform_onboard]]
    /\ live_before = live
    /\ server = {}
    /\ cmd = NoCmd
    /\ pc = "idle"
    /\ gen = NoGen
    /\ mig = NoMig
    /\ bd = NoBd
    /\ handles = <<>>
    /\ result = Ok(<<>>)
    /\ hist = NoHist
    /\ file_paths = <<>>
    /\ parsed = None
    /\ file_system = {}
    /\ sql_files = None
    /\ slug_text = <<>>
    /\ slug_made = None
    /\ migra_output = None
    /\ diff_returned = None

ApplyFrame ==
    UNCHANGED <<now, migrations, server, cmd, pc, gen, mig, bd, handles, result, hist,
                file_paths, parsed, file_system, sql_files, slug_text, slug_made,
                live_before, migra_output, diff_returned>>

Returns(operator, value, where) ==
    [operator EXCEPT !.at = "returned", !.returned = Some(value), !.failed_at = where,
                     !.transaction = None]

\* Lines 547-566: gather the chain and probe the version.
apply_probe(o) ==
    /\ operators[o].at = "command_migrate"
    /\ \E gathered \in {gather_validated_migrations(migrations)} :
          operators' = [operators EXCEPT ![o] =
              IF ~gathered.ok THEN Returns(@, gathered, "gather_validated_migrations")
              ELSE [@ EXCEPT !.migration_files = gathered.value.migration_files,
                             !.actual_version = current_schema_version(live),
                             !.at = "migrate_loop"]]
    /\ UNCHANGED live
    /\ ApplyFrame

\* Lines 570-583 and 600-614: the next file; when it is pending the table is
\* created (first file, outside the transaction) and a transaction opened.
apply_file(o) ==
    /\ operators[o].at = "migrate_loop"
    /\ LET operator == operators[o] IN
       IF operator.index >= Len(operator.migration_files)
       THEN /\ operators' = [operators EXCEPT ![o] = Returns(@, Ok(<<>>), "")]
            /\ UNCHANGED live
       ELSE
       LET file == operator.migration_files[operator.index + 1] IN
       IF operator.index # 0 /\ file.is_onboard
       THEN /\ operators' = [operators EXCEPT ![o] =
                                Returns(@, Err("migration {display_file_path} is listed as an onboard migration, but isn't the first one (at index {index})",
                                               <<file.display_file_path>>), "is_onboard")]
            /\ UNCHANGED live
       ELSE IF ~is_pending(file.current_version, operator.actual_version)
       THEN /\ operators' = [operators EXCEPT ![o].index = @ + 1]
            /\ UNCHANGED live
       ELSE \E created \in {IF creates_table(operator.index)
                            THEN create_versions_table(live) ELSE Ok(live)} :
               IF ~created.ok
               THEN /\ operators' = [operators EXCEPT ![o] =
                                        Returns(@, created, "create_versions_table")]
                    /\ UNCHANGED live
               ELSE /\ live' = created.value
                    /\ operators' = [operators EXCEPT ![o].transaction = Some(NoTransaction),
                                                      ![o].at = "migrate_sql"]
    /\ ApplyFrame

\* Lines 585-590: the migration's SQL, inside the transaction.
apply_sql(o) ==
    /\ operators[o].at = "migrate_sql"
    /\ LET operator == operators[o]
           file == operator.migration_files[operator.index + 1]
           sql == ReadFile(migrations, file.file_path)
           transaction == operator.transaction[1]
       IN
       IF ~executes_sql(file.is_onboard, operator.actually_perform_onboard_migrations)
       THEN operators' = [operators EXCEPT ![o].at = "migrate_insert"]
       ELSE /\ ~sql_waits(o, sql)
            /\ \E executed \in {batch_execute_sql(seen_by(live, transaction).schema, sql)} :
                  operators' = [operators EXCEPT ![o] =
                      IF ~executed.ok THEN Returns(@, executed, "batch_execute")
                      ELSE [@ EXCEPT !.transaction = Some([transaction EXCEPT
                                         !.drop = sql.drop, !.create = sql.create,
                                         !.executed = {file.current_version}]),
                                     !.at = "migrate_insert"]]
    /\ UNCHANGED live
    /\ ApplyFrame

\* Lines 592-594: the bookkeeping row, inside the transaction.
apply_insert(o) ==
    /\ operators[o].at = "migrate_insert"
    /\ LET operator == operators[o]
           file == operator.migration_files[operator.index + 1]
           transaction == operator.transaction[1]
       IN  /\ ~insert_waits(o, file.current_version, file.previous_version)
           /\ \E inserted \in {insert_version(seen_by(live, transaction),
                                              file.current_version, file.previous_version)} :
                 operators' = [operators EXCEPT ![o] =
                     IF ~inserted.ok THEN Returns(@, inserted, "insert")
                     ELSE [@ EXCEPT !.transaction = Some([transaction EXCEPT
                                        !.rows = inserted.value.rows \ live.rows]),
                                    !.at = "migrate_commit"]]
    /\ UNCHANGED live
    /\ ApplyFrame

\* Line 595: transaction.commit().
apply_commit(o) ==
    /\ operators[o].at = "migrate_commit"
    /\ LET operator == operators[o]
           file == operator.migration_files[operator.index + 1]
       IN  /\ live' = seen_by(live, operator.transaction[1])
           /\ operators' = [operators EXCEPT ![o].transaction = None,
                                             ![o].index = @ + 1,
                                             ![o].committed = @ \cup {file.current_version},
                                             ![o].at = "migrate_loop"]
    /\ ApplyFrame

NextApply ==
    \E o \in ApplyOperators :
        \/ apply_probe(o)
        \/ apply_file(o)
        \/ apply_sql(o)
        \/ apply_insert(o)
        \/ apply_commit(o)

SpecApply == InitApply /\ [][NextApply]_vars


\* Both runs have returned.
both_returned == \A o \in ApplyOperators : operators[o].at = "returned"

failed(o) == operators[o].at = "returned" /\ ~operators[o].returned[1].ok

\* The migrations either run committed, in chain order.
committed_files ==
    LET keep(file) == \E o \in ApplyOperators : file.current_version \in operators[o].committed
    IN  SelectSeq(gather_validated_migrations(migrations).value.migration_files, keep)

\* The live database holds what it held before the runs and what the
\* committed transactions did, each once, and nothing else.
only_committed_effects ==
    LET files == committed_files
        ran(file) == executes_sql(file.is_onboard,
                                  operators[1].actually_perform_onboard_migrations)
        statements == SelectSeq(files, ran)
        contents == [i \in 1..Len(statements) |->
                        ReadFile(migrations, statements[i].file_path)]
    IN  /\ live.rows = live_before.rows
              \cup {edge_of(PathFileName(files[i].file_path)[1]) : i \in 1..Len(files)}
        /\ live.executed = live_before.executed
              \cup {statements[i].current_version : i \in 1..Len(statements)}
        /\ apply_sql_contents(live_before.schema \ {VERSIONS_TABLE}, contents)
              = Ok(live.schema \ {VERSIONS_TABLE})
        /\ \A r, q \in live.rows : r.current_version = q.current_version => r = q

\* C26 as the code has it: in every interleaving of two command_migrate runs
\* on one database and one chain, no migration is committed by both runs, no
\* current_version is recorded twice, and the database holds the committed
\* transactions only; at most one run fails, the other then applies the whole
\* chain; a run fails at create_versions_table, at the migration's SQL or at
\* the insert, never at commit; and when both runs probed the same version,
\* exactly one of them fails.
C26_ConcurrentApplyIsSafe ==
    /\ operators[1].committed \cap operators[2].committed = {}
    /\ only_committed_effects
    /\ \A o \in ApplyOperators :
          failed(o) => /\ operators[o].transaction = None
                       /\ operators[o].failed_at \in
                             {"create_versions_table", "batch_execute", "insert"}
    /\ both_returned =>
          /\ \E o \in ApplyOperators : ~failed(o)
          /\ live.rows = directory_edges
          /\ operators[1].actual_version = operators[2].actual_version
                => \E o \in ApplyOperators : failed(o)

\* Both runs probed the same version; one committed a migration whose SQL
\* the other had executed as well, and the other failed at the insert.
C26_Witness ==
    /\ both_returned
    /\ operators[1].actual_version = operators[2].actual_version
    /\ \E o \in ApplyOperators :
          /\ failed(o)
          /\ operators[o].failed_at = "insert"
          /\ operators[o].committed = {}
          /\ \E other \in ApplyOperators :
                /\ ~failed(other)
                /\ operators[other].committed # {}
                /\ operators[other].committed \subseteq live.executed

\* C26 as stated: every interleaving ends with one of the two runs failing,
\* on the insert or the commit, under the uniqueness constraints of
\* _schema_versions.
C26_OneFailsOnCommit ==
    both_returned =>
        \E o \in ApplyOperators :
            /\ failed(o)
            /\ operators[o].failed_at \in {"insert", "commit"}


\* C27: a step changes the live database only inside command_migrate (the
\* table's creation and a transaction's commit) or as command_compact's
\* truncate-and-seed; no step of generate, diff or check changes it, whatever
\* the backends.
C27_OnlyApplyAndSeedWriteLive ==
    [][/\ live' # live =>
            \/ InApply /\ pc \in {"migrate_loop", "migrate_commit"}
            \/ cmd.name = "compact" /\ pc = "compact_seed"
       /\ cmd.name \in {"generate", "diff", "check"} => live' = live
       /\ (cmd.name = "compact" /\ cmd.phase \in {1, 4}) => live' = live]_vars

\* A diff of the migrations against the live database returns: the version
\* table was created in the transient database, and the live database has
\* the row and the structure the one migration gave it.
C27_Witness ==
    /\ Returning("diff")
    /\ result.ok
    /\ bd.source = "Migrations"
    /\ bd.target = "Database"
    /\ bd.need_version_table
    /\ VERSIONS_TABLE \in bd.source_schema
    /\ Cardinality(live.rows) = 1
    /\ live.executed # {}
    /\ hist.obtained # {}


(***************************************************************************)
(* compute_diff (lines 459-483), checked under SpecDiff.                   *)
(***************************************************************************)
REPLACEMENT_CHARACTER == 65533
INVALID_BYTE == 255
LINE_FEED == 10

\* String::from_utf8_lossy on bytes that are ASCII or the byte 0xFF, which
\* is no UTF-8 sequence: each 0xFF becomes U+FFFD.
from_utf8_lossy(bytes) ==
    [i \in 1..Len(bytes) |-> IF bytes[i] = INVALID_BYTE THEN REPLACEMENT_CHARACTER
                             ELSE bytes[i]]

\* char::is_whitespace on the characters of the model.
is_whitespace(c) == c \in {9, LINE_FEED, 11, 12, 13, SPACE}

RECURSIVE trim_start(_)
trim_start(s) ==
    IF Len(s) > 0 /\ is_whitespace(Head(s)) THEN trim_start(Tail(s)) ELSE s

RECURSIVE trim_end(_)
trim_end(s) ==
    IF Len(s) > 0 /\ is_whitespace(s[Len(s)]) THEN trim_end(SubSeq(s, 1, Len(s) - 1)) ELSE s

\* str::trim
trim(s) == trim_end(trim_start(s))

\* Mutant: the exit status decides.
compute_diff_ExitStatus(output) ==
    IF output = None
    THEN Err("Error while calling migra", <<>>)
    ELSE IF output[1].status # 0
    THEN Err("migra failed: {}\n\n{}",
             <<output[1].status, from_utf8_lossy(output[1].stderr)>>)
    ELSE Ok(trim(from_utf8_lossy(output[1].stdout)))

\* Lines 473-482: `output` is None when the subprocess could not be run, and
\* else the Output of the subprocess.
compute_diff(output) ==
    IF output = None
    THEN Err("Error while calling migra", <<>>)
    ELSE IF Len(output[1].stderr) # 0
    THEN Err("migra failed: {}\n\n{}",
             <<output[1].status, from_utf8_lossy(output[1].stderr)>>)
    ELSE Ok(trim(from_utf8_lossy(output[1].stdout)))

MaxStdout == 3
MaxStderr == 2
MaxStatus == 1

\* The sequences over `alphabet` of at most n elements.
UpTo(alphabet, n) == UNION {[1..k -> alphabet] : k \in 0..n}

\* What the subprocess can have done.
Outputs ==
    {None} \cup {Some(o) : o \in [status : 0..MaxStatus,
                                  stdout : UpTo({SPACE, LINE_FEED, 97, INVALID_BYTE}, MaxStdout),
                                  stderr : UpTo({LINE_FEED, 101, INVALID_BYTE}, MaxStderr)]}

InitDiff ==
    /\ now = ClockStart
    /\ migrations = NoFiles
    /\ live = [schema |-> {}, rows |-> {}, executed |-> {}]
    /\ server = {}
    /\ cmd = NoCmd
    /\ pc = "idle"
    /\ gen = NoGen
    /\ mig = NoMig
    /\ bd = NoBd
    /\ handles = <<>>
    /\ result = Ok(<<>>)
    /\ hist = NoHist
    /\ file_paths = <<>>
    /\ parsed = None
    /\ file_system = {}
    /\ sql_files = None
    /\ slug_text = <<>>
    /\ slug_made = None
    /\ operators = <<>>
    /\ live_before = [schema |-> {}, rows |-> {}, executed |-> {}]
    /\ migra_output \in Outputs
    /\ diff_returned = None

\* compute_diff(source, target, exclude_privileges, schema_arg)
call_compute_diff ==
    /\ diff_returned = None
    /\ diff_returned' = Some(compute_diff(migra_output))
    /\ UNCHANGED <<now, migrations, live, server, cmd, pc, gen, mig, bd, handles,
                   result, hist, file_paths, parsed, file_system, sql_files, slug_text,
                   slug_made, operators, live_before, migra_output>>

NextDiff == call_compute_diff

SpecDiff == InitDiff /\ [][NextDiff]_vars

\* The text is `trimmed` with white space before it and after it.
is_trimmed_text_of(trimmed, text) ==
    /\ trimmed = <<>> \/ (~is_whitespace(trimmed[1]) /\ ~is_whitespace(trimmed[Len(trimmed)]))
    /\ \E before \in 0..Len(text) :
          /\ before + Len(trimmed) <= Len(text)
          /\ SubSeq(text, before + 1, before + Len(trimmed)) = trimmed
          /\ \A i \in (1..before) \cup ((before + Len(trimmed) + 1)..Len(text)) :
                is_whitespace(text[i])

\* C28: when the migra subprocess ran, compute_diff returns Err exactly when
\* its stderr is not empty, whatever its exit status; the Err carries the
\* exit status and the stderr; the Ok carries the stdout without the white
\* space around it.
C28_StderrDecides ==
    (diff_returned # None /\ migra_output # None) =>
        LET output == migra_output[1]
            returned == diff_returned[1]
        IN  /\ ~returned.ok <=> output.stderr # <<>>
            /\ ~returned.ok =>
                  /\ returned.err.kind = "migra failed: {}\n\n{}"
                  /\ returned.err.args = <<output.status, from_utf8_lossy(output.stderr)>>
            /\ returned.ok =>
                  is_trimmed_text_of(returned.value, from_utf8_lossy(output.stdout))

\* The subprocess exits with a status that is not 0 and writes nothing to
\* stderr: compute_diff returns the trimmed stdout.
C28_Witness ==
    /\ diff_returned # None
    /\ migra_output # None
    /\ migra_output[1].status # 0
    /\ migra_output[1].stderr = <<>>
    /\ migra_output[1].stdout = <<SPACE, 97, LINE_FEED>>
    /\ diff_returned[1] = Ok(<<97>>)


\* C29: when command_compact returns Err, every version recorded in
\* _schema_versions still has its migration file in the directory.
C29_FailedCompactKeepsTheFilesOfTheRows ==
    (Returning("compact") /\ ~result.ok) =>
        \A r \in live.rows :
            \E e \in directory_edges : e.current_version = r.current_version


\* C30: every database on the server that TempDb::new created is held by a
\* TempDb in scope or carries the comment command_clean looks for.
C30_EveryTempDbIsOwnedOrTagged ==
    \A d \in server :
        d.name # CONFIG_DBNAME =>
            \/ d.tagged
            \/ \E i \in 1..Len(handles) : handles[i] = d.name

=============================================================================
